---- MODULE Spec2Model ----
(***************************************************************************)
(* State-machine model of the network explorer: the dataset loader and its *)
(* module-level cache (src/src/api.ts) and the application component that  *)
(* drives it (src/src/App.tsx).                                            *)
(*                                                                         *)
(* Asynchrony.  A step of the model is one task of the event loop: the     *)
(* handler of a user event, or the continuation of a fetch that settled,   *)
(* followed by the renders, the effects and the promise continuations it   *)
(* brings about, until nothing is left to run.  Only a fetch suspends a    *)
(* function across steps (fetchJson, the manifest fetch of the App): the   *)
(* fetches in flight settle in any order, each may fail.  The other async  *)
(* functions never wait for anything outside the program: the read         *)
(* accessors of api.ts compute their result from the cache within the      *)
(* call, executeBottomUpSearch has no await, import('./api') names a       *)
(* module that is loaded already.  Their continuations are queued in call  *)
(* order and run before the next render and before any other task.         *)
(***************************************************************************)
EXTENDS Integers, Sequences, FiniteSets, TLC

(***************************************************************************)
(* Values                                                                  *)
(***************************************************************************)
Null == [null |-> TRUE]          \* JavaScript null/undefined for objects
NoVal == "undefined"             \* an absent string field
NoTitle == 0                     \* cachedTitle === null
NoHops == -1                     \* maxHops === null
NoRel == -1                      \* expandedRelId === null

Pre == "pre-OBBBA"
Post == "post-OBBBA"
TimeScopes == {Pre, Post}

RawNode(id, name, type, time, title) ==
  [id |-> id, name |-> name, node_type |-> type, time |-> time, source_title |-> title,
   display_label |-> IF id = "a" /\ time = "pre-OBBBA" THEN "Alpha" ELSE NoVal,
   text |-> IF id \in {"b", "d", "f"} THEN "tax" ELSE NoVal]

RawLink(s, t, et, action, time) ==
  [source |-> s, target |-> t, edge_type |-> et, action |-> action, time |-> time]

(***************************************************************************)
(* The files the server holds.  Title 26 is a single file, title 42 is     *)
(* split into two parts that share a node, title 7 has no manifest entry.  *)
(***************************************************************************)
Manifest ==
  << [id |-> 26, kind |-> "single"], [id |-> 42, kind |-> "split"] >>

TitleIds == {26, 42, 7}

File26 ==
  [nodes |-> << RawNode("a", "A", "index", Pre, 26),
                RawNode("b", "B", "index", Pre, 26),
                RawNode("a", "A", "index", Post, 26) >>,
   links |-> << RawLink("a", "b", "reference", "cites", Pre),
                RawLink("b", "a", "definition", NoVal, Pre),
                RawLink("a", "b", NoVal, NoVal, Post) >>]

Parts42 ==
  << [nodes |-> << RawNode("c", "C", "index", Pre, 42),
                   RawNode("c", "C", "index", Post, 42) >>,
      links |-> << RawLink("c", "c", "hierarchy", NoVal, Pre) >>],
     [nodes |-> << RawNode("c", "C2", "index", Pre, 42),
                   RawNode("d", "D", "concept", Post, 42) >>,
      links |-> << RawLink("c", "d", "reference", NoVal, Post) >>] >>

\* the file of a single title, the part files of a split title
SingleFile(title) == File26

PartFiles(title) == Parts42

(***************************************************************************)
(* Sequence helpers                                                        *)
(***************************************************************************)
Min(a, b) == IF a < b THEN a ELSE b

Take(s, n) == SubSeq(s, 1, Min(n, Len(s)))

RECURSIVE Concat(_)
Concat(ss) == IF ss = <<>> THEN <<>> ELSE Head(ss) \o Concat(Tail(ss))


(***************************************************************************)
(* api.ts: pure parts                                                      *)
(***************************************************************************)
\* const scopedKey = (time, id) => `${time}::${id}`
scopedKey(time, id) == <<time, id>>

\* variant: the key of a node is its id alone
RECURSIVE DedupNodes_ById(_, _)
DedupNodes_ById(ns, seen) ==
  IF ns = <<>> THEN <<>>
  ELSE LET n == Head(ns)
       IN IF n.id \in seen
          THEN DedupNodes_ById(Tail(ns), seen)
          ELSE <<n>> \o DedupNodes_ById(Tail(ns), seen \cup {n.id})

\* the body of the merge loop: a node is pushed only when its key is new
RECURSIVE DedupNodes(_, _)
DedupNodes(ns, seen) ==
  IF ns = <<>> THEN <<>>
  ELSE LET n == Head(ns)
           key == scopedKey(n.time, n.id)
       IN IF key \in seen
          THEN DedupNodes(Tail(ns), seen)
          ELSE <<n>> \o DedupNodes(Tail(ns), seen \cup {key})

\* the orders in which n concurrent fetches can resolve
ArrivalOrders(n) ==
  {o \in [1..n -> 1..n] : \A i, j \in 1..n : o[i] = o[j] => i = j}

\* variant: the values are listed in the order of their arrival
PromiseAll_InArrivalOrder(files, arrived) == [k \in DOMAIN arrived |-> files[arrived[k]]]

\* line 44, Promise.all over meta.parts.map(fetchJson) once every fetch has
\* resolved: the value of the i-th promise is at index i, whenever it arrived
PromiseAll(files, arrived) == [i \in DOMAIN files |-> files[i]]

\* loadRawGraphForTitle, split branch: parts in listed order
MergeParts(parts) ==
  [nodes |-> DedupNodes(Concat([i \in DOMAIN parts |-> parts[i].nodes]), {}),
   links |-> Concat([i \in DOMAIN parts |-> parts[i].links])]

\* what loadRawGraphForTitle returns for a title of the manifest
RawOf(title) == IF title = 26 THEN SingleFile(title) ELSE MergeParts(PartFiles(title))

\* degreeMap: one increment per endpoint occurrence, keyed by raw id
Degree(links, id) ==
  Cardinality({i \in DOMAIN links : links[i].source = id})
  + Cardinality({i \in DOMAIN links : links[i].target = id})

\* variant: only the links of the node's own scope are counted
BuildNode_ScopedDegree(n, links) ==
  [id |-> n.id, name |-> n.name, node_type |-> n.node_type, time |-> n.time,
   source_title |-> n.source_title,
   val |-> Degree(SelectSeq(links, LAMBDA l : l.time = n.time), n.id),
   display_label |-> n.display_label, text |-> n.text]

\* the callback of raw.nodes.map, lines 102-138
BuildNode(n, links) ==
  [id |-> n.id, name |-> n.name, node_type |-> n.node_type, time |-> n.time,
   source_title |-> n.source_title, val |-> Degree(links, n.id),
   display_label |-> n.display_label, text |-> n.text]

BuildLink(l) ==
  LET edgeType == IF l.edge_type = NoVal THEN "reference" ELSE l.edge_type
  IN [source |-> l.source, target |-> l.target,
      action |-> IF l.action = NoVal THEN edgeType ELSE l.action,
      edge_type |-> edgeType, time |-> l.time]

\* loadGraph after the raw graph arrived; oid stands for the object's identity
BuildGraph(raw, oid) ==
  [oid |-> oid,
   nodes |-> [i \in DOMAIN raw.nodes |-> BuildNode(raw.nodes[i], raw.links)],
   links |-> [i \in DOMAIN raw.links |-> BuildLink(raw.links[i])]]

\* new Map(nodes.map(n => [scopedKey(n.time, n.id), n])).get(key): last entry wins
MapGet(nodes, key) ==
  LET hits == {i \in DOMAIN nodes : scopedKey(nodes[i].time, nodes[i].id) = key}
  IN IF hits = {} THEN Null
     ELSE nodes[CHOOSE i \in hits : \A j \in hits : j <= i]

\* nodes.find(pred): first entry wins
FindNode(nodes, id, time) ==
  LET hits == {i \in DOMAIN nodes : nodes[i].id = id /\ nodes[i].time = time}
  IN IF hits = {} THEN Null
     ELSE nodes[CHOOSE i \in hits : \A j \in hits : i <= j]

ToRelationship(g, link, idx, timeScope) ==
  LET sourceNode == MapGet(g.nodes, scopedKey(timeScope, link.source))
      targetNode == MapGet(g.nodes, scopedKey(timeScope, link.target))
  IN [id |-> idx,
      doc_id |-> link.source,
      actor |-> IF sourceNode = Null THEN link.source ELSE sourceNode.name,
      action |-> link.action,
      target |-> IF targetNode = Null THEN link.target ELSE targetNode.name,
      actor_type |-> IF sourceNode = Null THEN NoVal ELSE sourceNode.node_type,
      target_type |-> IF targetNode = Null THEN NoVal ELSE targetNode.node_type,
      actor_id |-> link.source,
      target_id |-> link.target]

ToRelationships(g, links, timeScope) ==
  [i \in DOMAIN links |-> ToRelationship(g, links[i], i - 1, timeScope)]

\* variant: only the links the projected view of the scope keeps are listed
RelationshipsOf_ProjectedLinks(g, limit, categories, timeScope) ==
  LET ids == {g.nodes[i].id : i \in {j \in DOMAIN g.nodes : g.nodes[j].time = timeScope}}
      scoped == SelectSeq(g.links, LAMBDA l :
                  l.time = timeScope /\ l.source \in ids /\ l.target \in ids)
      filteredLinks ==
        IF categories # {}
        THEN SelectSeq(scoped, LAMBDA l : l.edge_type \in categories)
        ELSE scoped
  IN [relationships |-> ToRelationships(g, Take(filteredLinks, limit), timeScope),
      totalBeforeLimit |-> Len(filteredLinks)]

\* variant: the limit is applied before the category filter
RelationshipsOf_LimitBeforeCategories(g, limit, categories, timeScope) ==
  LET scoped == Take(SelectSeq(g.links, LAMBDA l : l.time = timeScope), limit)
      filteredLinks ==
        IF categories # {}
        THEN SelectSeq(scoped, LAMBDA l : l.edge_type \in categories)
        ELSE scoped
  IN [relationships |-> ToRelationships(g, filteredLinks, timeScope),
      totalBeforeLimit |-> Len(filteredLinks)]

\* fetchRelationships past the loaded-check
RelationshipsOf(g, limit, categories, timeScope) ==
  LET scoped == SelectSeq(g.links, LAMBDA l : l.time = timeScope)
      filteredLinks ==
        IF categories # {}
        THEN SelectSeq(scoped, LAMBDA l : l.edge_type \in categories)
        ELSE scoped
  IN [relationships |-> ToRelationships(g, Take(filteredLinks, limit), timeScope),
      totalBeforeLimit |-> Len(filteredLinks)]

\* variant: the links of the id are listed whether or not the scope has a node
\* of that id
ActorRelationshipsOf_NoNodeCheck(g, actorId, timeScope) ==
  LET relatedLinks ==
        SelectSeq(g.links, LAMBDA l :
          l.time = timeScope /\ (l.source = actorId \/ l.target = actorId))
  IN [relationships |-> ToRelationships(g, relatedLinks, timeScope),
      totalBeforeFilter |-> Len(relatedLinks)]

\* fetchActorRelationships past the loaded-check
ActorRelationshipsOf(g, actorId, timeScope) ==
  LET actorNode == FindNode(g.nodes, actorId, timeScope)
      relatedLinks ==
        SelectSeq(g.links, LAMBDA l :
          l.time = timeScope /\ (l.source = actorId \/ l.target = actorId))
  IN IF actorNode = Null
     THEN [relationships |-> <<>>, totalBeforeFilter |-> 0]
     ELSE [relationships |-> ToRelationships(g, relatedLinks, timeScope),
           totalBeforeFilter |-> Len(relatedLinks)]

\* fetchActorCounts(limit, undefined, timeScope): id -> val, later nodes overwrite
ActorCountsOf(g, timeScope) ==
  LET nodes == SelectSeq(g.nodes, LAMBDA n : n.time = timeScope)
  IN [id \in {nodes[i].id : i \in DOMAIN nodes} |->
        nodes[CHOOSE i \in DOMAIN nodes :
                /\ nodes[i].id = id
                /\ \A j \in DOMAIN nodes : nodes[j].id = id => j <= i].val]


(***************************************************************************)
(* Strings: the accessors that search text see a string as its characters. *)
(***************************************************************************)
Chars(s) ==
  CASE s = "A" -> <<"A">>
    [] s = "B" -> <<"B">>
    [] s = "C" -> <<"C">>
    [] s = "C2" -> <<"C", "2">>
    [] s = "D" -> <<"D">>
    [] s = "Alpha" -> <<"A", "l", "p", "h", "a">>
    [] s = "alpha" -> <<"a", "l", "p", "h", "a">>
    [] s = "a" -> <<"a">>
    [] s = "c" -> <<"c">>
    [] s = "tax" -> <<"t", "a", "x">>
    [] OTHER -> <<>>

LowerChar(c) ==
  CASE c = "A" -> "a" [] c = "B" -> "b" [] c = "C" -> "c" [] c = "D" -> "d"
    [] OTHER -> c

toLowerCase(cs) == [i \in DOMAIN cs |-> LowerChar(cs[i])]

includes(hay, needle) ==
  \E i \in 0..(Len(hay) - Len(needle)) : SubSeq(hay, i + 1, i + Len(needle)) = needle

\* collation rank of a character, case folded
CharRank(c) ==
  CASE LowerChar(c) = "2" -> 0
    [] LowerChar(c) = "a" -> 1 [] LowerChar(c) = "b" -> 2 [] LowerChar(c) = "c" -> 3
    [] LowerChar(c) = "d" -> 4 [] LowerChar(c) = "h" -> 5 [] LowerChar(c) = "l" -> 6
    [] LowerChar(c) = "p" -> 7 [] LowerChar(c) = "t" -> 8 [] LowerChar(c) = "x" -> 9
    [] OTHER -> 10

\* a.localeCompare(b) < 0 on character sequences: the letters decide, and
\* between strings of the same letters the first difference of case does,
\* the lower case first
LocaleLess(x, y) ==
  LET RECURSIVE primary(_, _)
      primary(u, v) ==
        IF u = <<>> /\ v = <<>> THEN 0
        ELSE IF u = <<>> THEN -1
        ELSE IF v = <<>> THEN 1
        ELSE IF CharRank(Head(u)) # CharRank(Head(v))
             THEN (IF CharRank(Head(u)) < CharRank(Head(v)) THEN -1 ELSE 1)
        ELSE primary(Tail(u), Tail(v))
      RECURSIVE lowerFirst(_, _)
      lowerFirst(u, v) ==
        /\ u # <<>>
        /\ IF Head(u) = Head(v) THEN lowerFirst(Tail(u), Tail(v))
           ELSE Head(u) = LowerChar(Head(u))
      decide(p) == p < 0 \/ (p = 0 /\ lowerFirst(x, y))
  IN decide(primary(x, y))

\* Array.prototype.sort is stable: an element moves behind exactly the elements
\* that compare smaller and the equal ones that came before it
StableSort(s, Less(_, _)) ==
  LET before(j, i) == \/ Less(s[j], s[i])
                      \/ (~Less(s[i], s[j]) /\ j < i)
      pos(i) == Cardinality({j \in DOMAIN s : j # i /\ before(j, i)}) + 1
  IN [k \in DOMAIN s |-> s[CHOOSE i \in DOMAIN s : pos(i) = k]]

SearchLimit == 20

\* variant: the results are ordered by the node's name, shown or not
SearchActorsOf_SortsByNodeName(g, query, timeScope) ==
  LET lowerQuery == toLowerCase(Chars(query))
      pool == SelectSeq(g.nodes, LAMBDA n : n.time = timeScope)
      hits == StableSort(SelectSeq(pool, LAMBDA n :
                 \/ includes(toLowerCase(Chars(n.name)), lowerQuery)
                 \/ includes(toLowerCase(Chars(n.display_label)), lowerQuery)),
                LAMBDA x, y : LocaleLess(Chars(x.name), Chars(y.name)))
      actors == [i \in DOMAIN hits |->
                   [id |-> hits[i].id,
                    name |-> IF hits[i].display_label # NoVal
                             THEN hits[i].display_label ELSE hits[i].name,
                    connection_count |-> hits[i].val,
                    time |-> hits[i].time]]
  IN Take(actors, SearchLimit)

\* searchActors past the loaded-check
SearchActorsOf(g, query, timeScope) ==
  LET lowerQuery == toLowerCase(Chars(query))
      pool == SelectSeq(g.nodes, LAMBDA n : n.time = timeScope)
      hits == SelectSeq(pool, LAMBDA n :
                 \/ includes(toLowerCase(Chars(n.name)), lowerQuery)
                 \/ includes(toLowerCase(Chars(n.display_label)), lowerQuery))
      actors == [i \in DOMAIN hits |->
                   [id |-> hits[i].id,
                    name |-> IF hits[i].display_label # NoVal
                             THEN hits[i].display_label ELSE hits[i].name,
                    connection_count |-> hits[i].val,
                    time |-> hits[i].time]]
  IN Take(StableSort(actors, LAMBDA x, y : LocaleLess(Chars(x.name), Chars(y.name))),
          SearchLimit)

\* fetchDocument past the loaded-check
DocumentOf(g, docId, timeScope) ==
  LET node == FindNode(g.nodes, docId, timeScope)
  IN [doc_id |-> docId, category |-> "US Code",
      text |-> IF node = Null THEN NoVal ELSE node.text]

\* fetchDocumentText past the loaded-check
DocumentTextOf(g, docId, timeScope) ==
  LET node == FindNode(g.nodes, docId, timeScope)
  IN [text |-> IF node = Null \/ node.text = NoVal
               THEN "No text available for this node." ELSE node.text]

\* fetchNodeDetails past the loaded-check: by id, then by name, else null
NodeDetailsOf(g, nodeId, timeScope) ==
  LET byId == FindNode(g.nodes, nodeId, timeScope)
      named == {i \in DOMAIN g.nodes : g.nodes[i].name = nodeId /\ g.nodes[i].time = timeScope}
  IN IF byId # Null THEN byId
     ELSE IF named = {} THEN Null
     ELSE g.nodes[CHOOSE i \in named : \A j \in named : i <= j]


(***************************************************************************)
(* App.tsx: pure parts                                                     *)
(***************************************************************************)
\* variant: a link is kept for its own scope tag alone
scopedFullGraph_LinksByTimeOnly(fullGraph, timeScope) ==
  [nodes |-> SelectSeq(fullGraph.nodes, LAMBDA n : n.time = timeScope),
   links |-> SelectSeq(fullGraph.links, LAMBDA l : l.time = timeScope)]

\* useMemo scopedFullGraph
scopedFullGraph(fullGraph, timeScope) ==
  LET nodes == SelectSeq(fullGraph.nodes, LAMBDA n : n.time = timeScope)
      nodeIds == {nodes[i].id : i \in DOMAIN nodes}
  IN [nodes |-> nodes,
      links |-> SelectSeq(fullGraph.links, LAMBDA l :
                  l.time = timeScope /\ l.source \in nodeIds /\ l.target \in nodeIds)]

\* the elements of a sequence in order of first occurrence
RECURSIVE Uniq(_)
Uniq(s) ==
  IF s = <<>> THEN <<>>
  ELSE LET r == Uniq(SubSeq(s, 1, Len(s) - 1))
       IN IF \E i \in DOMAIN r : r[i] = s[Len(s)] THEN r ELSE Append(r, s[Len(s)])

\* the endpoint ids of a list of links or relationships, in Map insertion order
EndpointIds(ends) == Uniq(Concat([i \in DOMAIN ends |-> <<ends[i][1], ends[i][2]>>]))

\* nodeDegrees.get(id) || 0 over a list of endpoint pairs
PairDegree(ends, id) ==
  Cardinality({i \in DOMAIN ends : ends[i][1] = id})
  + Cardinality({i \in DOMAIN ends : ends[i][2] = id})

\* variant: links of equal score are kept from the end of the list
TopByPairDegree_LaterTiesFirst(ends, limit) ==
  LET score(i) == PairDegree(ends, ends[i][1]) + PairDegree(ends, ends[i][2])
      idx == [i \in DOMAIN ends |-> i]
  IN Take(StableSort(idx, LAMBDA x, y :
            score(x) > score(y) \/ (score(x) = score(y) /\ x > y)), limit)

\* sort by the sum of the two endpoint degrees, highest first, and slice(0, limit);
\* the result lists the kept positions
TopByPairDegree(ends, limit) ==
  LET score(i) == PairDegree(ends, ends[i][1]) + PairDegree(ends, ends[i][2])
      idx == [i \in DOMAIN ends |-> i]
  IN Take(StableSort(idx, LAMBDA x, y : score(x) > score(y)), limit)

\* convertGraphToRelationships
convertGraphToRelationships(nodes, links) ==
  LET get(id) == LET hits == {i \in DOMAIN nodes : nodes[i].id = id}
                 IN IF hits = {} THEN Null
                    ELSE nodes[CHOOSE i \in hits : \A j \in hits : j <= i]
  IN [i \in DOMAIN links |->
        LET sourceNode == get(links[i].source)
            targetNode == get(links[i].target)
        IN [id |-> i - 1,
            doc_id |-> IF sourceNode = Null THEN "" ELSE sourceNode.id,
            actor |-> IF sourceNode = Null THEN "" ELSE sourceNode.name,
            action |-> links[i].action,
            target |-> IF targetNode = Null THEN "" ELSE targetNode.name,
            actor_type |-> IF sourceNode = Null THEN NoVal ELSE sourceNode.node_type,
            target_type |-> IF targetNode = Null THEN NoVal ELSE targetNode.node_type,
            actor_id |-> IF sourceNode = Null THEN NoVal ELSE sourceNode.id,
            target_id |-> IF targetNode = Null THEN NoVal ELSE targetNode.id]]

\* variant: a relationship is kept when either of its ends is within the budget
LoadDataResult_EitherEndAllowed(response, actorCounts, c) ==
  LET rels == response.relationships
      working ==
        IF Cardinality(c.enabledNodeTypes) > 0 /\ Cardinality(c.enabledNodeTypes) < 3
        THEN SelectSeq(rels, LAMBDA r :
               /\ r.actor_type # NoVal /\ r.actor_type \in c.enabledNodeTypes
               /\ r.target_type # NoVal /\ r.target_type \in c.enabledNodeTypes)
        ELSE rels
      ends(rs) == [i \in DOMAIN rs |-> <<rs[i].actor_id, rs[i].target_id>>]
      ids == EndpointIds(ends(working))
      allowedNodes ==
        LET sorted == StableSort(ids, LAMBDA x, y :
                        PairDegree(ends(working), x) > PairDegree(ends(working), y))
        IN {sorted[i] : i \in 1..Min(c.maxHops, Len(sorted))}
      budgeted ==
        IF c.maxHops # NoHops /\ Len(ids) > c.maxHops
        THEN SelectSeq(working, LAMBDA r :
               r.actor_id \in allowedNodes \/ r.target_id \in allowedNodes)
        ELSE working
      filtered ==
        IF Len(budgeted) > c.limit
        THEN LET keep == TopByPairDegree(ends(budgeted), c.limit)
             IN [i \in DOMAIN keep |-> budgeted[keep[i]]]
        ELSE budgeted
  IN [relationships |-> filtered,
      totalBeforeLimit |-> Len(working),
      actorTotalCounts |-> actorCounts,
      topDownGraphInfo |-> [nodeCount |-> Len(EndpointIds(ends(filtered))),
                            linkCount |-> Len(filtered)]]

\* the body of loadData between the await and the setters
LoadDataResult(response, actorCounts, c) ==
  LET rels == response.relationships
      working ==
        IF Cardinality(c.enabledNodeTypes) > 0 /\ Cardinality(c.enabledNodeTypes) < 3
        THEN SelectSeq(rels, LAMBDA r :
               /\ r.actor_type # NoVal /\ r.actor_type \in c.enabledNodeTypes
               /\ r.target_type # NoVal /\ r.target_type \in c.enabledNodeTypes)
        ELSE rels
      ends(rs) == [i \in DOMAIN rs |-> <<rs[i].actor_id, rs[i].target_id>>]
      ids == EndpointIds(ends(working))
      allowedNodes ==
        LET sorted == StableSort(ids, LAMBDA x, y :
                        PairDegree(ends(working), x) > PairDegree(ends(working), y))
        IN {sorted[i] : i \in 1..Min(c.maxHops, Len(sorted))}
      budgeted ==
        IF c.maxHops # NoHops /\ Len(ids) > c.maxHops
        THEN SelectSeq(working, LAMBDA r :
               r.actor_id \in allowedNodes /\ r.target_id \in allowedNodes)
        ELSE working
      filtered ==
        IF Len(budgeted) > c.limit
        THEN LET keep == TopByPairDegree(ends(budgeted), c.limit)
             IN [i \in DOMAIN keep |-> budgeted[keep[i]]]
        ELSE budgeted
  IN [relationships |-> filtered,
      totalBeforeLimit |-> Len(working),
      actorTotalCounts |-> actorCounts,
      topDownGraphInfo |-> [nodeCount |-> Len(EndpointIds(ends(filtered))),
                            linkCount |-> Len(filtered)]]

(***************************************************************************)
(* services/networkBuilder: NetworkBuilder.buildNetwork.  Its source is    *)
(* not part of the files at hand; it is modelled from section 4.3 of the   *)
(* specification.                                                          *)
(***************************************************************************)
MaxNodesPerExpansion == 100

\* the text of an eligible field of a node
FieldText(n, field) ==
  CASE field = "text" -> n.text
    [] field = "display_label" -> n.display_label
    [] OTHER -> NoVal

\* a term is found when it is a case-insensitive substring of an eligible field
TermFound(n, term, fields) ==
  \E f \in fields :
    includes(toLowerCase(Chars(FieldText(n, f))), toLowerCase(Chars(term)))

\* variant: in conjunctive mode one field has to hold every term
IsSeed_AllTermsInOneField(n, st, searchLogic) ==
  /\ n.node_type \in st.allowedNodeTypes
  /\ IF searchLogic = "AND"
     THEN \E f \in st.searchFields :
            \A i \in DOMAIN st.searchTerms : TermFound(n, st.searchTerms[i], {f})
     ELSE \E i \in DOMAIN st.searchTerms : TermFound(n, st.searchTerms[i], st.searchFields)

IsSeed(n, st, searchLogic) ==
  /\ n.node_type \in st.allowedNodeTypes
  /\ IF searchLogic = "AND"
     THEN \A i \in DOMAIN st.searchTerms : TermFound(n, st.searchTerms[i], st.searchFields)
     ELSE \E i \in DOMAIN st.searchTerms : TermFound(n, st.searchTerms[i], st.searchFields)

\* rank score of a node: dataset-wide degree, or degree within the set built so far
RankScore(b, id, within, mode) ==
  IF mode = "global"
  THEN LET hits == {i \in DOMAIN b.nodes : b.nodes[i].id = id}
       IN IF hits = {} THEN 0 ELSE b.nodes[CHOOSE i \in hits : TRUE].val
  ELSE Cardinality({i \in DOMAIN b.links :
                      /\ b.links[i].source \in within \cup {id}
                      /\ b.links[i].target \in within \cup {id}
                      /\ id \in {b.links[i].source, b.links[i].target}})

\* variant: a level admits as many candidates as the overall cap leaves room for
RECURSIVE Expand_NoLevelCap(_, _, _, _, _, _)
Expand_NoLevelCap(b, st, mode, level, current, truncated) ==
  LET have == {current[i] : i \in DOMAIN current}
      usable == SelectSeq(b.links, LAMBDA l : l.edge_type \in st.allowedEdgeTypes)
      met == Concat([i \in DOMAIN usable |->
               IF usable[i].source \in have /\ usable[i].target \notin have
               THEN <<usable[i].target>>
               ELSE IF usable[i].target \in have /\ usable[i].source \notin have
               THEN <<usable[i].source>>
               ELSE <<>>])
      ranked == StableSort(Uniq(met), LAMBDA x, y :
                  RankScore(b, x, have, mode) > RankScore(b, y, have, mode))
      room == st.maxTotalNodes - Len(current)
  IN IF level >= st.expansionDepth \/ Len(current) >= st.maxTotalNodes \/ ranked = <<>>
     THEN [ids |-> current, truncated |-> truncated]
     ELSE Expand_NoLevelCap(b, st, mode, level + 1, current \o Take(ranked, room),
                 truncated \/ Len(ranked) > room)

\* breadth-first expansion; current is the list of admitted ids
RECURSIVE Expand(_, _, _, _, _, _)
Expand(b, st, mode, level, current, truncated) ==
  LET have == {current[i] : i \in DOMAIN current}
      usable == SelectSeq(b.links, LAMBDA l : l.edge_type \in st.allowedEdgeTypes)
      met == Concat([i \in DOMAIN usable |->
               IF usable[i].source \in have /\ usable[i].target \notin have
               THEN <<usable[i].target>>
               ELSE IF usable[i].target \in have /\ usable[i].source \notin have
               THEN <<usable[i].source>>
               ELSE <<>>])
      ranked == StableSort(Uniq(met), LAMBDA x, y :
                  RankScore(b, x, have, mode) > RankScore(b, y, have, mode))
      room == Min(st.maxNodesPerExpansion, st.maxTotalNodes - Len(current))
  IN IF level >= st.expansionDepth \/ Len(current) >= st.maxTotalNodes \/ ranked = <<>>
     THEN [ids |-> current, truncated |-> truncated]
     ELSE Expand(b, st, mode, level + 1, current \o Take(ranked, room),
                 truncated \/ Len(ranked) > room)

\* variant: the matches are counted after the overall cap
BuildNetwork_CountsKeptSeeds(b, st, searchLogic, mode) ==
  LET seeds == SelectSeq(b.nodes, LAMBDA n : IsSeed(n, st, searchLogic))
      seedIds == [i \in DOMAIN seeds |-> seeds[i].id]
      ranked == StableSort(seedIds, LAMBDA x, y :
                  RankScore(b, x, {}, mode) > RankScore(b, y, {}, mode))
      grown == Expand(b, st, mode, 0, Take(ranked, st.maxTotalNodes),
                      Len(ranked) > st.maxTotalNodes)
      final == {grown.ids[i] : i \in DOMAIN grown.ids}
  IN [nodes |-> SelectSeq(b.nodes, LAMBDA n : n.id \in final),
      links |-> SelectSeq(b.links, LAMBDA l :
                  /\ l.edge_type \in st.allowedEdgeTypes
                  /\ l.source \in final /\ l.target \in final),
      truncated |-> grown.truncated,
      matchedCount |-> Len(Take(ranked, st.maxTotalNodes))]

\* variant: the links between result nodes are kept whatever their kind
BuildNetwork_LinksOfAnyKind(b, st, searchLogic, mode) ==
  LET seeds == SelectSeq(b.nodes, LAMBDA n : IsSeed(n, st, searchLogic))
      seedIds == [i \in DOMAIN seeds |-> seeds[i].id]
      ranked == StableSort(seedIds, LAMBDA x, y :
                  RankScore(b, x, {}, mode) > RankScore(b, y, {}, mode))
      grown == Expand(b, st, mode, 0, Take(ranked, st.maxTotalNodes),
                      Len(ranked) > st.maxTotalNodes)
      final == {grown.ids[i] : i \in DOMAIN grown.ids}
  IN [nodes |-> SelectSeq(b.nodes, LAMBDA n : n.id \in final),
      links |-> SelectSeq(b.links, LAMBDA l :
                  l.source \in final /\ l.target \in final),
      truncated |-> grown.truncated,
      matchedCount |-> Len(seeds)]

BuildNetwork(b, st, searchLogic, mode) ==
  LET seeds == SelectSeq(b.nodes, LAMBDA n : IsSeed(n, st, searchLogic))
      seedIds == [i \in DOMAIN seeds |-> seeds[i].id]
      ranked == StableSort(seedIds, LAMBDA x, y :
                  RankScore(b, x, {}, mode) > RankScore(b, y, {}, mode))
      grown == Expand(b, st, mode, 0, Take(ranked, st.maxTotalNodes),
                      Len(ranked) > st.maxTotalNodes)
      final == {grown.ids[i] : i \in DOMAIN grown.ids}
  IN [nodes |-> SelectSeq(b.nodes, LAMBDA n : n.id \in final),
      links |-> SelectSeq(b.links, LAMBDA l :
                  /\ l.edge_type \in st.allowedEdgeTypes
                  /\ l.source \in final /\ l.target \in final),
      truncated |-> grown.truncated,
      matchedCount |-> Len(seeds)]

\* params.keywords.split(',').map(trim).filter(nonempty)
SearchTerms(keywords) ==
  CASE keywords = "tax" -> <<"tax">>
    [] keywords = "alpha" -> <<"alpha">>
    [] keywords = "tax, alpha" -> <<"tax", "alpha">>
    [] OTHER -> <<>>

\* keywords.trim().length > 0
NonBlank(keywords) == keywords \notin {"", " "}

\* executeBottomUpSearch lines 219-230: the builder state of stored parameters
BuilderState(params) ==
  [searchTerms |-> SearchTerms(params.keywords),
   searchFields |-> params.searchFields,
   allowedNodeTypes |-> params.nodeTypes,
   allowedEdgeTypes |-> params.edgeTypes,
   expansionDepth |-> params.expansionDegree,
   maxNodesPerExpansion |-> MaxNodesPerExpansion,
   maxTotalNodes |-> params.maxNodes]

\* the no-search branch of the bottom-up effect: the scoped graph, capped
CappedDisplay(scoped, maxHops, limit) ==
  LET cappedNodes == IF maxHops # NoHops /\ Len(scoped.nodes) > maxHops
                     THEN Take(scoped.nodes, maxHops) ELSE scoped.nodes
      allowed == {cappedNodes[i].id : i \in DOMAIN cappedNodes}
      inside == SelectSeq(scoped.links, LAMBDA l :
                  l.source \in allowed /\ l.target \in allowed)
      linksWereCapped == Len(inside) > limit
      nodesWereCapped == Len(cappedNodes) # Len(scoped.nodes)
  IN [nodes |-> cappedNodes,
      links |-> IF linksWereCapped THEN Take(inside, limit) ELSE inside,
      truncated |-> nodesWereCapped \/ linksWereCapped,
      matchedCount |-> Len(cappedNodes)]

\* setDisplayGraphInfo argument for a display graph
InfoOf(d) ==
  [nodeCount |-> Len(d.nodes), linkCount |-> Len(d.links),
   truncated |-> d.truncated, matchedCount |-> d.matchedCount]

\* executeBottomUpSearch lines 237-281: from the builder's result to the display graph
\* variant: every node of the builder's result is displayed
SearchDisplay_AllBuilderNodes(filtered, limit) ==
  LET ends == [i \in DOMAIN filtered.links |->
                 <<filtered.links[i].source, filtered.links[i].target>>]
      linksTruncated == Len(filtered.links) > limit
      finalLinks ==
        IF linksTruncated
        THEN LET keep == TopByPairDegree(ends, limit)
             IN [i \in DOMAIN keep |-> filtered.links[keep[i]]]
        ELSE filtered.links
  IN [nodes |-> filtered.nodes,
      links |-> finalLinks,
      truncated |-> filtered.truncated \/ linksTruncated,
      matchedCount |-> filtered.matchedCount]

SearchDisplay(filtered, limit) ==
  LET ends == [i \in DOMAIN filtered.links |->
                 <<filtered.links[i].source, filtered.links[i].target>>]
      linksTruncated == Len(filtered.links) > limit
      finalLinks ==
        IF linksTruncated
        THEN LET keep == TopByPairDegree(ends, limit)
             IN [i \in DOMAIN keep |-> filtered.links[keep[i]]]
        ELSE filtered.links
      nodesInFinalLinks ==
        {finalLinks[i].source : i \in DOMAIN finalLinks}
          \cup {finalLinks[i].target : i \in DOMAIN finalLinks}
  IN [nodes |-> SelectSeq(filtered.nodes, LAMBDA n : n.id \in nodesInFinalLinks),
      links |-> finalLinks,
      truncated |-> filtered.truncated \/ linksTruncated,
      matchedCount |-> filtered.matchedCount]

(***************************************************************************)
(* State                                                                   *)
(***************************************************************************)
VARIABLES
  cachedGraph,   \* api.ts module variable: Null or the graph object
  cachedTitle,   \* api.ts module variable: NoTitle or a title number
  loads,         \* calls of loadGraph (and of loadGraphData around them) in flight
  nextLoadId,    \* number of loads issued; a graph object is identified by its load
  reply,         \* what the last direct call of the api returned or threw
  app,           \* the state of the App component, one field per useState/useRef
  mergeIn,       \* the part files the meta-file lists, when the merge is exercised alone
  partsArrived,  \* the indexes of the part fetches that have resolved, in arrival order
  mergeOut,      \* what loadRawGraphForTitle made of them
  callIn,        \* the arguments of a function of App.tsx, when it is exercised alone
  callOut        \* what the function returned

apiVars == <<cachedGraph, cachedTitle, loads, nextLoadId, reply>>
mergeVars == <<mergeIn, partsArrived, mergeOut>>
callVars == <<callIn, callOut>>
vars == <<cachedGraph, cachedTitle, loads, nextLoadId, reply, app,
          mergeIn, partsArrived, mergeOut, callIn, callOut>>

MaxLoads == 2        \* calls of loadGraph by other callers in one behaviour
MaxTitleLoads == 2   \* loads the App starts in one behaviour
MaxRuns == 4         \* runs of the bottom-up search in one behaviour

(***************************************************************************)
(* api.ts: read accessors                                                  *)
(***************************************************************************)
Accessors ==
  {"fetchRelationships", "fetchActorRelationships", "fetchActorCounts", "searchActors",
   "fetchDocument", "fetchDocumentText", "fetchNodeDetails"}

NodeIds == {"a", "b", "c", "d"}

\* the ids (for searchActors: the queries) direct readers ask for
ReadIds == {"a", "c"}

\* ensureGraphLoadedOrThrow
GraphLoaded(g) == g # Null

AccessorResult(op, g, id, timeScope) ==
  CASE op = "fetchRelationships" -> RelationshipsOf(g, 2, {}, timeScope)
    [] op = "fetchActorRelationships" -> ActorRelationshipsOf(g, id, timeScope)
    [] op = "fetchActorCounts" -> ActorCountsOf(g, timeScope)
    [] op = "searchActors" -> SearchActorsOf(g, id, timeScope)
    [] op = "fetchDocument" -> DocumentOf(g, id, timeScope)
    [] op = "fetchDocumentText" -> DocumentTextOf(g, id, timeScope)
    [] op = "fetchNodeDetails" -> NodeDetailsOf(g, id, timeScope)

\* variant: an unloaded cache answers with an empty result
CallAccessor_EmptyWhenUnloaded(op, id, timeScope) ==
  /\ reply' = IF GraphLoaded(cachedGraph)
              THEN [op |-> op, status |-> "ok",
                    data |-> [value |-> AccessorResult(op, cachedGraph, id, timeScope)]]
              ELSE [op |-> op, status |-> "ok", data |-> [value |-> <<>>]]
  /\ UNCHANGED <<cachedGraph, cachedTitle, loads, nextLoadId, app, mergeVars, callVars>>

\* a caller other than the App calls a read accessor and awaits it
CallAccessor(op, id, timeScope) ==
  /\ reply' = IF GraphLoaded(cachedGraph)
              THEN [op |-> op, status |-> "ok",
                    data |-> [value |-> AccessorResult(op, cachedGraph, id, timeScope)]]
              ELSE [op |-> op, status |-> "StateError", data |-> Null]
  /\ UNCHANGED <<cachedGraph, cachedTitle, loads, nextLoadId, app, mergeVars, callVars>>


(***************************************************************************)
(* Initial state: the component has mounted and its first effects have run *)
(***************************************************************************)
EmptyGraph == [oid |-> 0, nodes |-> <<>>, links |-> <<>>]

EmptyDisplay == [nodes |-> <<>>, links |-> <<>>, truncated |-> FALSE, matchedCount |-> 0]

InitialLimit == 4000
InitialMaxHops == 2000
InitialTitle == 26

NoReply == [op |-> "none", status |-> "none", data |-> Null]

NoneSettled == [kind |-> "none"]

AppInit ==
  [buildMode |-> "topDown",
   timeScope |-> Pre,
   openDocId |-> NoVal,
   fullGraph |-> EmptyGraph,
   builder |-> [nodes |-> <<>>, links |-> <<>>],
   displayGraph |-> EmptyDisplay,
   displayGraphInfo |-> Null,
   topDownGraphInfo |-> Null,
   relationships |-> <<>>,
   bottomUpSearchKeywords |-> "",
   totalBeforeLimit |-> 0,
   loading |-> TRUE,
   selectedNode |-> Null,
   actorRelationships |-> <<>>,
   actorTotalBeforeFilter |-> 0,
   limit |-> InitialLimit,
   maxHops |-> InitialMaxHops,
   enabledCategories |-> {},
   enabledNodeTypes |-> {"index"},
   selectedTitle |-> InitialTitle,
   availableTitles |-> <<>>,
   actorTotalCounts |-> <<>>,
   manifestLoaded |-> FALSE,
   isInitialized |-> FALSE,
   isSwitchingScope |-> FALSE,
   bottomUpSearchParams |-> Null,
   bottomUpRunId |-> 0,
   manifestPending |-> TRUE,
   micro |-> <<>>,
   invocations |-> 0,
   fetchedOutOfScope |-> FALSE,
   alert |-> "",
   spawn |-> NoTitle,
   lastSettled |-> NoneSettled,
   newestLoad |-> [id |-> 0, title |-> NoTitle, ok |-> FALSE, oid |-> 0]]

ApiInit ==
  /\ cachedGraph = Null
  /\ cachedTitle = NoTitle
  /\ loads = {}
  /\ nextLoadId = 0
  /\ reply = NoReply

MergeIdle ==
  /\ mergeIn = <<>>
  /\ partsArrived = <<>>
  /\ mergeOut = Null

CallIdle ==
  /\ callIn = Null
  /\ callOut = Null

Init ==
  /\ ApiInit
  /\ app = AppInit
  /\ MergeIdle
  /\ CallIdle

(***************************************************************************)
(* App.tsx: effects.  A render is followed by the effects whose            *)
(* dependencies changed, in the order of their definition; they read the   *)
(* rendered state s and their updates accumulate in r.st; r.fresh names    *)
(* the state cells that received a new object although their value may be  *)
(* equal to the old one.  The refs and the queue of continuations are     *)
(* read and written in r.st as they are not part of a render.              *)
(***************************************************************************)
\* line 235: if (runId !== bottomUpRunIdRef.current) return
SearchCommits(s, run) == run.runId = s.bottomUpRunId

\* lines 214-288: what a run puts on display when it commits
RunOutput(run) ==
  SearchDisplay(BuildNetwork(run.builder, BuilderState(run.params),
                             run.params.searchLogic, run.params.nodeRankingMode),
                run.limit)

\* variant: preservePreviousGraph is ignored, the loading flag is raised and
\* lowered by every run
executeBottomUpSearch_IgnoresPreserve(s, r, params, preserve) ==
  IF params.searchFields = {} THEN r
  ELSE LET runId == r.st.bottomUpRunId + 1
           run == [runId |-> runId, params |-> params,
                   builder |-> s.builder, limit |-> s.limit]
           started == [r EXCEPT !.st.bottomUpRunId = runId,
                                !.st.invocations = @ + 1,
                                !.st.loading = FALSE,
                                !.st.relationships = <<>>,
                                !.st.topDownGraphInfo = Null]
           committed(d) == [started EXCEPT !.st.displayGraph = d,
                                           !.st.displayGraphInfo = InfoOf(d),
                                           !.fresh = @ \cup {"displayGraph"}]
       IN IF SearchCommits(started.st, run) THEN committed(RunOutput(run)) ELSE started

\* executeBottomUpSearch, lines 203-293, as created in the render s: the function
\* has no await, so the run builds and commits within the call, and the loading
\* flag it raises at line 208 is lowered at line 292 before any render
executeBottomUpSearch(s, r, params, preserve) ==
  IF params.searchFields = {} THEN r
  ELSE LET runId == r.st.bottomUpRunId + 1
           run == [runId |-> runId, params |-> params,
                   builder |-> s.builder, limit |-> s.limit]
           started == [r EXCEPT !.st.bottomUpRunId = runId,
                                !.st.invocations = @ + 1,
                                !.st.loading = IF preserve THEN @ ELSE FALSE,
                                !.st.relationships = <<>>,
                                !.st.topDownGraphInfo = Null]
           committed(d) == [started EXCEPT !.st.displayGraph = d,
                                           !.st.displayGraphInfo = InfoOf(d),
                                           !.fresh = @ \cup {"displayGraph"}]
       IN IF SearchCommits(started.st, run) THEN committed(RunOutput(run)) ELSE started

\* loadData lines 449-465 as called with the closure c while the cache holds cg:
\* the two accessors run within the call, the rest of loadData is queued
loadData(cg, c, r) ==
  LET queued(call) ==
        [r EXCEPT !.st.loading = TRUE,
                  !.st.micro = Append(@, [kind |-> "loadData", outcome |-> call.outcome,
                                          result |-> call.result])]
  IN queued(IF GraphLoaded(cg)
            THEN [outcome |-> "ok",
                  result |-> LoadDataResult(
                               RelationshipsOf(cg, c.limit * 2, c.enabledCategories, c.timeScope),
                               ActorCountsOf(cg, c.timeScope), c)]
            ELSE [outcome |-> "StateError", result |-> Null])

\* what loadData closes over in a render
LoadDataClosure(s) ==
  [limit |-> s.limit, maxHops |-> s.maxHops, enabledNodeTypes |-> s.enabledNodeTypes,
   enabledCategories |-> s.enabledCategories, timeScope |-> s.timeScope]

\* scopedFullGraph is recomputed: useMemo over [fullGraph, timeScope]
ScopedChanged(p, s, fresh) ==
  p.fullGraph # s.fullGraph \/ p.timeScope # s.timeScope \/ "fullGraph" \in fresh

\* lines 150-183 up to the first await; dependencies [selectedTitle, manifestLoaded]
EffectLoadGraphData(p, s, fresh, r) ==
  IF <<p.selectedTitle, p.manifestLoaded>> = <<s.selectedTitle, s.manifestLoaded>> THEN r
  ELSE IF ~s.manifestLoaded THEN r
  ELSE [r EXCEPT !.st.loading = TRUE, !.st.isInitialized = FALSE,
                 !.st.invocations = @ + 1,
                 !.st.spawn = s.selectedTitle]

\* lines 185-187; dependencies [scopedFullGraph.nodes, scopedFullGraph.links]
EffectBuilder(p, s, fresh, r) ==
  IF ~ScopedChanged(p, s, fresh) THEN r
  ELSE [r EXCEPT !.st.builder = scopedFullGraph(s.fullGraph, s.timeScope),
                 !.fresh = @ \cup {"builder"}]

\* variant: the effect does not run again when the builder is replaced
EffectBottomUp_NotOnNewBuilder(p, s, fresh, r) ==
  IF <<p.buildMode, p.bottomUpSearchKeywords, p.timeScope,
       p.bottomUpSearchParams, p.maxHops, p.limit>>
     = <<s.buildMode, s.bottomUpSearchKeywords, s.timeScope,
         s.bottomUpSearchParams, s.maxHops, s.limit>>
     /\ "bottomUpSearchParams" \notin fresh
  THEN r
  ELSE IF s.buildMode # "bottomUp" THEN r
  ELSE IF ~NonBlank(s.bottomUpSearchKeywords)
  THEN LET shown(d) == [r EXCEPT !.st.displayGraph = d, !.st.displayGraphInfo = InfoOf(d),
                                 !.fresh = @ \cup {"displayGraph"}]
       IN shown(CappedDisplay(scopedFullGraph(s.fullGraph, s.timeScope), s.maxHops, s.limit))
  ELSE IF s.bottomUpSearchParams = Null THEN r
  ELSE [executeBottomUpSearch(s, r, s.bottomUpSearchParams, TRUE)
          EXCEPT !.st.micro = Append(@, [kind |-> "finally"])]

\* lines 300-360
EffectBottomUp(p, s, fresh, r) ==
  IF /\ <<p.buildMode, p.bottomUpSearchKeywords, p.timeScope, p.builder,
          p.bottomUpSearchParams, p.maxHops, p.limit>>
        = <<s.buildMode, s.bottomUpSearchKeywords, s.timeScope, s.builder,
            s.bottomUpSearchParams, s.maxHops, s.limit>>
     /\ ~ScopedChanged(p, s, fresh)
     /\ fresh \cap {"builder", "bottomUpSearchParams"} = {}
  THEN r
  ELSE IF s.buildMode # "bottomUp" THEN r
  ELSE IF ~NonBlank(s.bottomUpSearchKeywords)
  THEN LET shown(d) == [r EXCEPT !.st.displayGraph = d, !.st.displayGraphInfo = InfoOf(d),
                                 !.fresh = @ \cup {"displayGraph"}]
       IN shown(CappedDisplay(scopedFullGraph(s.fullGraph, s.timeScope), s.maxHops, s.limit))
  ELSE IF s.bottomUpSearchParams = Null THEN r
  ELSE [executeBottomUpSearch(s, r, s.bottomUpSearchParams, TRUE)
          EXCEPT !.st.micro = Append(@, [kind |-> "finally"])]

\* lines 396-420; dependencies [fullGraph]
EffectInitialized(p, s, fresh, r) ==
  IF p.fullGraph = s.fullGraph /\ "fullGraph" \notin fresh THEN r
  ELSE IF Len(s.fullGraph.nodes) > 0
  THEN [r EXCEPT !.st.enabledCategories = {"definition", "reference", "hierarchy"},
                 !.st.isInitialized = TRUE,
                 !.fresh = @ \cup {"enabledCategories"}]
  ELSE r

\* lines 422-445
EffectLoadData(cg, p, s, fresh, r) ==
  IF /\ <<p.manifestLoaded, p.isInitialized, p.loading, p.buildMode,
          Len(p.fullGraph.nodes), p.timeScope, p.limit, p.enabledCategories,
          p.enabledNodeTypes, p.maxHops>>
        = <<s.manifestLoaded, s.isInitialized, s.loading, s.buildMode,
            Len(s.fullGraph.nodes), s.timeScope, s.limit, s.enabledCategories,
            s.enabledNodeTypes, s.maxHops>>
     /\ fresh \cap {"enabledCategories", "enabledNodeTypes"} = {}
  THEN r
  ELSE IF /\ s.manifestLoaded /\ s.isInitialized /\ ~s.loading
          /\ s.buildMode = "topDown" /\ Len(s.fullGraph.nodes) > 0
  THEN loadData(cg, LoadDataClosure(s), r)
  ELSE r

\* variant: the effect fetches for a selection of another scope as well
EffectNodeRelationships_IgnoresScope(cg, p, s, fresh, r) ==
  LET isOutOfScope == s.selectedNode # Null /\ s.selectedNode.scope # s.timeScope
  IN IF /\ <<p.buildMode, p.selectedNode, p.enabledCategories, p.maxHops, p.timeScope,
             p.displayGraph, p.isSwitchingScope>>
           = <<s.buildMode, s.selectedNode, s.enabledCategories, s.maxHops, s.timeScope,
               s.displayGraph, s.isSwitchingScope>>
        /\ fresh \cap {"selectedNode", "enabledCategories", "displayGraph"} = {}
     THEN r
     ELSE IF s.selectedNode = Null
     THEN IF ~s.isSwitchingScope
          THEN [r EXCEPT !.st.actorRelationships = <<>>, !.st.actorTotalBeforeFilter = 0]
          ELSE r
     ELSE IF s.buildMode = "topDown"
     THEN LET id == s.selectedNode.id
              call == IF GraphLoaded(cg)
                      THEN [outcome |-> "ok",
                            response |-> ActorRelationshipsOf(cg, id, s.timeScope)]
                      ELSE [outcome |-> "StateError", response |-> Null]
          IN [r EXCEPT !.st.fetchedOutOfScope = @ \/ isOutOfScope,
                       !.st.micro =
                Append(@, [kind |-> "nodeRelationships",
                           isSwitchingScope |-> s.isSwitchingScope,
                           outcome |-> call.outcome, response |-> call.response])]
     ELSE LET id == s.selectedNode.id
              relatedLinks == SelectSeq(s.displayGraph.links,
                                LAMBDA l : l.source = id \/ l.target = id)
              rels == convertGraphToRelationships(s.displayGraph.nodes, relatedLinks)
          IN [r EXCEPT !.st.actorRelationships = rels,
                       !.st.actorTotalBeforeFilter = Len(rels)]

\* lines 639-705
EffectNodeRelationships(cg, p, s, fresh, r) ==
  LET isOutOfScope == s.selectedNode # Null /\ s.selectedNode.scope # s.timeScope
  IN IF /\ <<p.buildMode, p.selectedNode, p.enabledCategories, p.maxHops, p.timeScope,
             p.displayGraph, p.isSwitchingScope>>
           = <<s.buildMode, s.selectedNode, s.enabledCategories, s.maxHops, s.timeScope,
               s.displayGraph, s.isSwitchingScope>>
        /\ fresh \cap {"selectedNode", "enabledCategories", "displayGraph"} = {}
     THEN r
     ELSE IF s.selectedNode = Null \/ isOutOfScope
     THEN IF ~s.isSwitchingScope
          THEN [r EXCEPT !.st.actorRelationships = <<>>, !.st.actorTotalBeforeFilter = 0]
          ELSE r
     ELSE IF s.buildMode = "topDown"
     THEN LET id == s.selectedNode.id
              call == IF GraphLoaded(cg)
                      THEN [outcome |-> "ok",
                            response |-> ActorRelationshipsOf(cg, id, s.timeScope)]
                      ELSE [outcome |-> "StateError", response |-> Null]
          IN [r EXCEPT !.st.fetchedOutOfScope = @ \/ isOutOfScope,
                       !.st.micro =
                Append(@, [kind |-> "nodeRelationships",
                           isSwitchingScope |-> s.isSwitchingScope,
                           outcome |-> call.outcome, response |-> call.response])]
     ELSE LET id == s.selectedNode.id
              relatedLinks == SelectSeq(s.displayGraph.links,
                                LAMBDA l : l.source = id \/ l.target = id)
              rels == convertGraphToRelationships(s.displayGraph.nodes, relatedLinks)
          IN [r EXCEPT !.st.actorRelationships = rels,
                       !.st.actorTotalBeforeFilter = Len(rels)]

\* loadData lines 467-563 for the call
loadDataSettled(s, call) ==
  LET done == [s EXCEPT !.loading = FALSE, !.isSwitchingScope = FALSE]
  IN IF call.outcome = "ok"
     THEN [done EXCEPT !.relationships = call.result.relationships,
                       !.totalBeforeLimit = call.result.totalBeforeLimit,
                       !.actorTotalCounts = call.result.actorTotalCounts,
                       !.topDownGraphInfo = call.result.topDownGraphInfo,
                       !.displayGraphInfo = Null]
     ELSE done

\* loadNodeRelationships lines 669-677 for the call
loadNodeRelationshipsSettled(s, call) ==
  IF call.outcome = "ok"
  THEN [s EXCEPT !.actorRelationships = call.response.relationships,
                 !.actorTotalBeforeFilter = call.response.totalBeforeFilter]
  ELSE IF ~call.isSwitchingScope
  THEN [s EXCEPT !.actorRelationships = <<>>, !.actorTotalBeforeFilter = 0]
  ELSE s

\* the continuations queued in r.st.micro run in the order of their calls: the
\* accessors they await are settled when they return, so nothing else of the
\* program runs in between
RECURSIVE Drain(_)
Drain(r) ==
  IF r.st.micro = <<>> THEN r
  ELSE LET m == Head(r.st.micro)
           s == [r.st EXCEPT !.micro = Tail(@)]
       IN Drain([r EXCEPT !.st =
                   CASE m.kind = "loadData" -> loadDataSettled(s, m)
                     [] m.kind = "nodeRelationships" -> loadNodeRelationshipsSettled(s, m)
                     [] m.kind = "finally" -> [s EXCEPT !.isSwitchingScope = FALSE]])

\* one render of s after the render of p: the effects in the order of their
\* definition, each running when one of its dependencies changed
RunEffects(cg, p, s, fresh) ==
  EffectNodeRelationships(cg, p, s, fresh,
    EffectLoadData(cg, p, s, fresh,
      EffectInitialized(p, s, fresh,
        EffectBottomUp(p, s, fresh,
          EffectBuilder(p, s, fresh,
            EffectLoadGraphData(p, s, fresh, [st |-> s, fresh |-> {}]))))))

\* render, run the effects and the continuations they queued, until a render
\* runs nothing that changes anything
RECURSIVE Settle(_, _, _, _)
Settle(cg, p, s, fresh) ==
  LET next(r) == IF r.st = s /\ r.fresh = {} THEN s ELSE Settle(cg, s, r.st, r.fresh)
  IN next(Drain(RunEffects(cg, p, s, fresh)))

\* the states the component renders in the task that Settle runs, in order
RECURSIVE Renders(_, _, _, _)
Renders(cg, p, s, fresh) ==
  LET next(r) == IF r.st = s /\ r.fresh = {} THEN <<s>>
                 ELSE <<s>> \o Renders(cg, s, r.st, r.fresh)
  IN next(Drain(RunEffects(cg, p, s, fresh)))

(***************************************************************************)
(* App.tsx: the continuations of its async functions                       *)
(***************************************************************************)
\* variant: a resolved load leaves the stored search and the selection of the
\* previous title in place
loadGraphDataSettled_KeepsPreviousTitle(s, l) ==
  IF l.pc = "resolved"
  THEN [st |-> [s EXCEPT !.fullGraph = l.data,
                         !.displayGraphInfo = Null,
                         !.topDownGraphInfo = Null,
                         !.loading = FALSE],
        fresh |-> {}]
  ELSE [st |-> [s EXCEPT !.fullGraph = [oid |-> l.id, nodes |-> <<>>, links |-> <<>>],
                         !.loading = FALSE],
        fresh |-> {"fullGraph"}]

\* loadGraphData lines 163-179 once loadGraph has settled as l
loadGraphDataSettled(s, l) ==
  IF l.pc = "resolved"
  THEN [st |-> [s EXCEPT !.fullGraph = l.data,
                         !.selectedNode = Null,
                         !.actorRelationships = <<>>,
                         !.actorTotalBeforeFilter = 0,
                         !.bottomUpSearchKeywords = "",
                         !.bottomUpSearchParams = Null,
                         !.displayGraphInfo = Null,
                         !.topDownGraphInfo = Null,
                         !.loading = FALSE],
        fresh |-> {}]
  ELSE [st |-> [s EXCEPT !.fullGraph = [oid |-> l.id, nodes |-> <<>>, links |-> <<>>],
                         !.loading = FALSE],
        fresh |-> {"fullGraph"}]

(***************************************************************************)
(* App.tsx: event handlers                                                 *)
(***************************************************************************)
\* variant: a click on the selected node clears the selection whatever scope
\* the selection was recorded in
handleNodeClick_ToggleInAnyScope(s, nodeId) ==
  IF nodeId = NoVal
  THEN [st |-> [s EXCEPT !.selectedNode = Null], fresh |-> {}]
  ELSE IF s.selectedNode # Null /\ s.selectedNode.id = nodeId
  THEN [st |-> [s EXCEPT !.selectedNode = Null], fresh |-> {}]
  ELSE [st |-> [s EXCEPT !.selectedNode = [id |-> nodeId, scope |-> s.timeScope]],
        fresh |-> {"selectedNode"}]

\* handleNodeClick
handleNodeClick(s, nodeId) ==
  IF nodeId = NoVal
  THEN [st |-> [s EXCEPT !.selectedNode = Null], fresh |-> {}]
  ELSE IF s.selectedNode # Null /\ s.selectedNode.id = nodeId
          /\ s.selectedNode.scope = s.timeScope
  THEN [st |-> [s EXCEPT !.selectedNode = Null], fresh |-> {}]
  ELSE [st |-> [s EXCEPT !.selectedNode = [id |-> nodeId, scope |-> s.timeScope]],
        fresh |-> {"selectedNode"}]

\* variant: the anchor is the selected node whether a document is open or not
switchTimeScope_AnchorIsSelection(s, next) ==
  LET prev == s.selectedNode
      anchorId == IF prev # Null THEN prev.id ELSE NoVal
      exists == \E i \in DOMAIN s.fullGraph.nodes :
                  s.fullGraph.nodes[i].id = anchorId /\ s.fullGraph.nodes[i].time = next
      keep == anchorId = NoVal \/ ~exists
  IN [st |-> [s EXCEPT !.isSwitchingScope = TRUE,
                       !.timeScope = next,
                       !.selectedNode = IF keep THEN prev
                                        ELSE [id |-> anchorId, scope |-> next]],
      fresh |-> IF keep THEN {} ELSE {"selectedNode"}]

\* switchTimeScope
switchTimeScope(s, next) ==
  LET prev == s.selectedNode
      anchorId == IF s.openDocId # NoVal THEN s.openDocId
                  ELSE IF prev # Null THEN prev.id ELSE NoVal
      exists == \E i \in DOMAIN s.fullGraph.nodes :
                  s.fullGraph.nodes[i].id = anchorId /\ s.fullGraph.nodes[i].time = next
      keep == anchorId = NoVal \/ ~exists
  IN [st |-> [s EXCEPT !.isSwitchingScope = TRUE,
                       !.timeScope = next,
                       !.selectedNode = IF keep THEN prev
                                        ELSE [id |-> anchorId, scope |-> next]],
      fresh |-> IF keep THEN {} ELSE {"selectedNode"}]

\* variant: the request is stored before it is examined
handleBottomUpSearch_StoresBeforeChecks(s, params) ==
  LET effective == [params EXCEPT
                      !.maxNodes = IF s.maxHops = NoHops \/ s.maxHops = 0
                                   THEN 1500 ELSE s.maxHops]
      set == [s EXCEPT !.bottomUpSearchParams = effective,
                       !.bottomUpSearchKeywords = params.keywords,
                       !.buildMode = "bottomUp"]
      refused(message) == [st |-> [set EXCEPT !.alert = message],
                           fresh |-> {"bottomUpSearchParams"}]
  IN IF s.builder = Null THEN refused("Network builder is not ready. Please wait for the data to load.")
     ELSE IF ~NonBlank(params.keywords)
     THEN refused("Please enter some keywords to search for (e.g., \"tax\")")
     ELSE IF params.searchFields = {}
     THEN refused("Please select at least one field to search in.")
     ELSE executeBottomUpSearch(s, [st |-> set, fresh |-> {"bottomUpSearchParams"}],
                                effective, FALSE)

\* variant: the request is not examined for its fields
handleBottomUpSearch_NoFieldsCheck(s, params) ==
  LET effective == [params EXCEPT
                      !.maxNodes = IF s.maxHops = NoHops \/ s.maxHops = 0
                                   THEN 1500 ELSE s.maxHops]
      set == [s EXCEPT !.bottomUpSearchParams = effective,
                       !.bottomUpSearchKeywords = params.keywords,
                       !.buildMode = "bottomUp"]
      refused(message) == [st |-> [s EXCEPT !.alert = message], fresh |-> {}]
  IN IF s.builder = Null THEN refused("Network builder is not ready. Please wait for the data to load.")
     ELSE IF ~NonBlank(params.keywords)
     THEN refused("Please enter some keywords to search for (e.g., \"tax\")")
     ELSE executeBottomUpSearch(s, [st |-> set, fresh |-> {"bottomUpSearchParams"}],
                                effective, FALSE)

\* handleBottomUpSearch, lines 707-745: its three refusals show an alert (the
\* last message shown is kept in alert) and return
handleBottomUpSearch(s, params) ==
  LET effective == [params EXCEPT
                      !.maxNodes = IF s.maxHops = NoHops \/ s.maxHops = 0
                                   THEN 1500 ELSE s.maxHops]
      set == [s EXCEPT !.bottomUpSearchParams = effective,
                       !.bottomUpSearchKeywords = params.keywords,
                       !.buildMode = "bottomUp"]
      refused(message) == [st |-> [s EXCEPT !.alert = message], fresh |-> {}]
  IN IF s.builder = Null THEN refused("Network builder is not ready. Please wait for the data to load.")
     ELSE IF ~NonBlank(params.keywords)
     THEN refused("Please enter some keywords to search for (e.g., \"tax\")")
     ELSE IF params.searchFields = {}
     THEN refused("Please select at least one field to search in.")
     ELSE executeBottomUpSearch(s, [st |-> set, fresh |-> {"bottomUpSearchParams"}],
                                effective, FALSE)

\* handleStartNewNetwork
handleStartNewNetwork(s) ==
  [st |-> [s EXCEPT !.buildMode = "bottomUp",
                    !.bottomUpSearchKeywords = "",
                    !.bottomUpSearchParams = Null,
                    !.relationships = <<>>,
                    !.displayGraph = EmptyDisplay,
                    !.displayGraphInfo = Null,
                    !.topDownGraphInfo = Null,
                    !.selectedNode = Null,
                    !.actorRelationships = <<>>],
   fresh |-> {"displayGraph"}]

\* handleResetToTopDown: its loadData is the one of the first render
handleResetToTopDown(cg, s) ==
  loadData(cg, LoadDataClosure(AppInit),
           [st |-> [s EXCEPT !.buildMode = "topDown",
                             !.bottomUpSearchKeywords = "",
                             !.bottomUpSearchParams = Null,
                             !.displayGraphInfo = Null,
                             !.selectedNode = Null,
                             !.actorRelationships = <<>>],
            fresh |-> {}])

\* loadManifest lines 378-390
loadManifestSettled(s) ==
  LET ids == StableSort([i \in DOMAIN Manifest |-> Manifest[i].id], LAMBDA x, y : x < y)
      has(t) == \E i \in DOMAIN ids : ids[i] = t
  IN [st |-> [s EXCEPT !.availableTitles = ids,
                       !.selectedTitle = IF has(@) THEN @
                                         ELSE IF has(26) THEN 26 ELSE ids[1],
                       !.manifestLoaded = TRUE],
      fresh |-> {}]

(***************************************************************************)
(* api.ts: loadGraph                                                       *)
(***************************************************************************)
\* the bound on the run id of the App
Bounded(s) == s.bottomUpRunId <= MaxRuns

\* no load of the App waits between its import('./api') and its call of
\* loadGraph: the module is loaded already (line 11), so this continuation runs
\* before any fetch settles and before any event of the user
AppIdle == \A l \in loads : l.pc # "import"

\* an App step: the state r.st the handler or continuation left is rendered and
\* its effects run with the cache cg; a load the effects started is put in flight
AppStep(cg, r, settled) ==
  LET commit(n) ==
        /\ Bounded(n)
        /\ app' = [n EXCEPT !.spawn = NoTitle, !.lastSettled = settled]
        /\ IF n.spawn # NoTitle
           THEN /\ nextLoadId < MaxTitleLoads
                /\ nextLoadId' = nextLoadId + 1
                /\ loads' = loads \cup
                     {[id |-> nextLoadId + 1, title |-> n.spawn, caller |-> "app",
                       pc |-> "import", data |-> Null, error |-> "none"]}
           ELSE UNCHANGED <<loads, nextLoadId>>
  IN commit(Settle(cg, app, r.st, r.fresh))

\* the load l has become l2: when loadGraph has settled for loadGraphData, its
\* continuation runs at once with the cache cg; otherwise l2 stays in flight
Handoff(cg, l, l2) ==
  IF l2.caller = "app" /\ l2.pc \in {"resolved", "rejected"}
  THEN LET commit(n) ==
             /\ Bounded(n)
             /\ app' = [n EXCEPT !.lastSettled = [kind |-> "loadGraphData", load |-> l2],
                                 !.newestLoad =
                                    IF l2.id > @.id
                                    THEN [id |-> l2.id, title |-> l2.title,
                                          ok |-> l2.pc = "resolved",
                                          oid |-> IF l2.pc = "resolved"
                                                  THEN l2.data.oid ELSE 0]
                                    ELSE @]
             /\ loads' = loads \ {l}
           render(r) == commit(Settle(cg, app, r.st, r.fresh))
       IN render(loadGraphDataSettled(app, l2))
  ELSE /\ loads' = (loads \ {l}) \cup {l2}
       /\ app' = [app EXCEPT !.lastSettled = NoneSettled]

\* variant: the cache is never consulted
CacheHit_Never(title) == FALSE

\* line 90: if (cachedGraph && cachedTitle === title) return cachedGraph
CacheHit(title) == cachedGraph # Null /\ cachedTitle = title

ManifestItem(title) ==
  LET hits == {i \in DOMAIN Manifest : Manifest[i].id = title}
  IN IF hits = {} THEN Null
     ELSE Manifest[CHOOSE i \in hits : \A j \in hits : i <= j]

\* the call of loadGraph(title): a hit resolves with the cached object, a miss
\* starts loadRawGraphForTitle with the fetch of the manifest
LoadGraphCall(l) ==
  IF CacheHit(l.title)
  THEN [l EXCEPT !.pc = "resolved", !.data = cachedGraph]
  ELSE [l EXCEPT !.pc = "manifest"]

Rejected(l, error) == [l EXCEPT !.pc = "rejected", !.error = error]

NewLoad(title, caller, pc) ==
  [id |-> nextLoadId + 1, title |-> title, caller |-> caller, pc |-> pc,
   data |-> Null, error |-> "none"]

\* a caller other than the App calls loadGraph(title)
CallLoadGraph(title) ==
  /\ nextLoadId < MaxLoads
  /\ nextLoadId' = nextLoadId + 1
  /\ loads' = loads \cup {LoadGraphCall(NewLoad(title, "direct", "call"))}
  /\ UNCHANGED <<cachedGraph, cachedTitle, reply, app, mergeVars, callVars>>

\* loadGraphData line 160-161: import('./api') settles and loadGraph is called
ImportDone(l) ==
  /\ l.pc = "import"
  /\ Handoff(cachedGraph, l, LoadGraphCall(l))
  /\ UNCHANGED <<cachedGraph, cachedTitle, nextLoadId, reply, mergeVars, callVars>>

\* fetchJson('titles-manifest.json') settles; then manifest.titles.find
FetchManifest(l, ok) ==
  /\ AppIdle
  /\ l.pc = "manifest"
  /\ LET item == ManifestItem(l.title)
         next == IF ~ok THEN Rejected(l, "FetchFailure")
                 ELSE IF item = Null THEN Rejected(l, "NotFound")
                 ELSE IF item.kind = "single" THEN [l EXCEPT !.pc = "file"]
                 ELSE [l EXCEPT !.pc = "meta"]
     IN Handoff(cachedGraph, l, next)
  /\ UNCHANGED <<cachedGraph, cachedTitle, nextLoadId, reply, mergeVars, callVars>>

\* variant: the title is recorded but the graph object is left for later
StoreGraph_TitleOnly(l, raw) ==
  /\ cachedGraph' = cachedGraph
  /\ cachedTitle' = l.title
  /\ Handoff(cachedGraph', l, [l EXCEPT !.pc = "resolved", !.data = BuildGraph(raw, l.id)])

\* loadGraph lines 94-158 once loadRawGraphForTitle has returned raw
StoreGraph(l, raw) ==
  /\ cachedGraph' = BuildGraph(raw, l.id)
  /\ cachedTitle' = l.title
  /\ Handoff(cachedGraph', l, [l EXCEPT !.pc = "resolved", !.data = cachedGraph'])

\* variant: a failed load drops the cache
FailLoad_DropsCache(l) ==
  /\ cachedGraph' = Null
  /\ cachedTitle' = NoTitle
  /\ Handoff(cachedGraph', l, Rejected(l, "FetchFailure"))

\* variant: a failed load leaves the nodes it had fetched in the cache
FailLoad_CachesPartial(l) ==
  /\ cachedGraph' = BuildGraph([nodes |-> RawOf(l.title).nodes, links |-> <<>>], l.id)
  /\ cachedTitle' = l.title
  /\ Handoff(cachedGraph', l, Rejected(l, "FetchFailure"))

\* a fetch of loadRawGraphForTitle threw: loadGraph rejects before line 156
FailLoad(l) ==
  /\ UNCHANGED <<cachedGraph, cachedTitle>>
  /\ Handoff(cachedGraph, l, Rejected(l, "FetchFailure"))

\* single title: fetchJson(item.file) settles
FetchFile(l, ok) ==
  /\ AppIdle
  /\ l.pc = "file"
  /\ IF ok THEN StoreGraph(l, SingleFile(l.title)) ELSE FailLoad(l)
  /\ UNCHANGED <<nextLoadId, reply, mergeVars, callVars>>

\* split title: fetchJson(item.meta) settles
FetchMeta(l, ok) ==
  /\ AppIdle
  /\ l.pc = "meta"
  /\ Handoff(cachedGraph, l, IF ok THEN [l EXCEPT !.pc = "parts"]
                             ELSE Rejected(l, "FetchFailure"))
  /\ UNCHANGED <<cachedGraph, cachedTitle, nextLoadId, reply, mergeVars, callVars>>

\* split title: Promise.all over the part fetches settles; the parts are merged
FetchParts(l, ok) ==
  /\ AppIdle
  /\ l.pc = "parts"
  /\ IF ok
     THEN \E arrived \in ArrivalOrders(Len(PartFiles(l.title))) :
            StoreGraph(l, MergeParts(PromiseAll(PartFiles(l.title), arrived)))
     ELSE FailLoad(l)
  /\ UNCHANGED <<nextLoadId, reply, mergeVars, callVars>>

\* the direct caller receives the graph or the error
ReturnLoadGraph(l) ==
  /\ l.caller = "direct"
  /\ l.pc \in {"resolved", "rejected"}
  /\ loads' = loads \ {l}
  /\ reply' = IF l.pc = "resolved"
              THEN [op |-> "loadGraph", status |-> "ok", data |-> l.data]
              ELSE [op |-> "loadGraph", status |-> l.error, data |-> Null]
  /\ UNCHANGED <<cachedGraph, cachedTitle, nextLoadId, app, mergeVars, callVars>>

(***************************************************************************)
(* App.tsx: the steps of the component                                     *)
(***************************************************************************)
\* the searches a user submits: keywords, expansion degree and the fields ticked,
\* the rest of the form left as it is
SearchParams(keywords, expansionDegree, searchFields) ==
  [keywords |-> keywords, expansionDegree |-> expansionDegree, maxNodes |-> 1500,
   nodeTypes |-> {"index", "entity", "concept"},
   edgeTypes |-> {"definition", "reference", "hierarchy"},
   searchFields |-> searchFields,
   searchLogic |-> "OR", nodeRankingMode |-> "global"]

SearchInputs == {<<"tax", 1>>, <<"alpha", 0>>}

\* the fields a user ticks
SearchFields == {"text", "display_label"}

\* the nodes a user clicks
ClickIds == {"a", "c"}

\* fetch('titles-manifest.json') of loadManifest settles
ManifestSettled(ok) ==
  /\ AppIdle
  /\ app.manifestPending
  /\ AppStep(cachedGraph,
             IF ok THEN loadManifestSettled([app EXCEPT !.manifestPending = FALSE])
             ELSE [st |-> [app EXCEPT !.manifestPending = FALSE], fresh |-> {}],
             NoneSettled)
  /\ UNCHANGED <<cachedGraph, cachedTitle, reply, mergeVars, callVars>>

\* onSelectedTitleChange={setSelectedTitle} with a title the sidebar offers
SelectTitle(title) ==
  /\ AppIdle
  /\ \E i \in DOMAIN app.availableTitles : app.availableTitles[i] = title
  /\ title # app.selectedTitle
  /\ AppStep(cachedGraph, [st |-> [app EXCEPT !.selectedTitle = title], fresh |-> {}],
             NoneSettled)
  /\ UNCHANGED <<cachedGraph, cachedTitle, reply, mergeVars, callVars>>

NodeClick(nodeId) ==
  /\ AppIdle
  /\ AppStep(cachedGraph, handleNodeClick(app, nodeId), NoneSettled)
  /\ UNCHANGED <<cachedGraph, cachedTitle, reply, mergeVars, callVars>>

SwitchTimeScope(next) ==
  /\ AppIdle
  /\ AppStep(cachedGraph, switchTimeScope(app, next), [kind |-> "switchTimeScope"])
  /\ UNCHANGED <<cachedGraph, cachedTitle, reply, mergeVars, callVars>>

BottomUpSearch(keywords, expansionDegree, searchFields) ==
  /\ AppIdle
  /\ AppStep(cachedGraph,
             handleBottomUpSearch(app, SearchParams(keywords, expansionDegree,
                                                    searchFields)),
             NoneSettled)
  /\ UNCHANGED <<cachedGraph, cachedTitle, reply, mergeVars, callVars>>

StartNewNetwork ==
  /\ AppIdle
  /\ AppStep(cachedGraph, handleStartNewNetwork(app), NoneSettled)
  /\ UNCHANGED <<cachedGraph, cachedTitle, reply, mergeVars, callVars>>

ResetToTopDown ==
  /\ AppIdle
  /\ AppStep(cachedGraph, handleResetToTopDown(cachedGraph, app), NoneSettled)
  /\ UNCHANGED <<cachedGraph, cachedTitle, reply, mergeVars, callVars>>

(***************************************************************************)
(* The App: every event of the user and every settling of a fetch          *)
(***************************************************************************)
NextApp ==
  \/ \E ok \in BOOLEAN : ManifestSettled(ok)
  \/ \E title \in TitleIds : SelectTitle(title)
  \/ \E l \in loads : ImportDone(l)
  \/ \E l \in loads, ok \in BOOLEAN : FetchManifest(l, ok)
  \/ \E l \in loads, ok \in BOOLEAN : FetchFile(l, ok)
  \/ \E l \in loads, ok \in BOOLEAN : FetchMeta(l, ok)
  \/ \E l \in loads, ok \in BOOLEAN : FetchParts(l, ok)
  \/ \E nodeId \in ClickIds \cup {NoVal} : NodeClick(nodeId)
  \/ \E next \in TimeScopes : SwitchTimeScope(next)
  \/ \E in \in SearchInputs : BottomUpSearch(in[1], in[2], SearchFields)
  \/ StartNewNetwork
  \/ ResetToTopDown

SpecApp == Init /\ [][NextApp]_vars

\* the same, and every request that is in flight is settled in the end, with
\* either outcome; nothing obliges the user to act
SpecAppFair ==
  /\ SpecApp
  /\ WF_vars(\/ \E ok \in BOOLEAN : ManifestSettled(ok)
             \/ \E l \in loads : ImportDone(l)
             \/ \E l \in loads, ok \in BOOLEAN : FetchManifest(l, ok)
             \/ \E l \in loads, ok \in BOOLEAN : FetchFile(l, ok)
             \/ \E l \in loads, ok \in BOOLEAN : FetchMeta(l, ok)
             \/ \E l \in loads, ok \in BOOLEAN : FetchParts(l, ok))

(***************************************************************************)
(* Scope switches: the user moves between the two time scopes while titles *)
(* load, nodes are selected and a bottom-up search is active               *)
(***************************************************************************)
NextScope ==
  \/ \E ok \in BOOLEAN : ManifestSettled(ok)
  \/ \E title \in TitleIds : SelectTitle(title)
  \/ \E l \in loads : ImportDone(l)
  \/ \E l \in loads, ok \in BOOLEAN : FetchManifest(l, ok)
  \/ \E l \in loads, ok \in BOOLEAN : FetchFile(l, ok)
  \/ \E l \in loads, ok \in BOOLEAN : FetchMeta(l, ok)
  \/ \E l \in loads, ok \in BOOLEAN : FetchParts(l, ok)
  \/ \E nodeId \in {"a", "b"} : NodeClick(nodeId)
  \/ \E next \in TimeScopes : SwitchTimeScope(next)
  \/ BottomUpSearch("tax", 1, SearchFields)

SpecScope == Init /\ [][NextScope]_vars

(***************************************************************************)
(* Selections: nodes of title 26 are clicked, documents are opened and     *)
(* closed, and the scope is switched, in both build modes                  *)
(***************************************************************************)
\* onViewFullText, lines 861 and 874: setOpenDocId(docId)
ViewFullText(docId) ==
  /\ AppIdle
  /\ AppStep(cachedGraph, [st |-> [app EXCEPT !.openDocId = docId], fresh |-> {}],
             NoneSettled)
  /\ UNCHANGED <<cachedGraph, cachedTitle, reply, mergeVars, callVars>>

\* onClose of the document, line 899: setOpenDocId(null)
CloseDocument ==
  /\ AppIdle
  /\ AppStep(cachedGraph, [st |-> [app EXCEPT !.openDocId = NoVal], fresh |-> {}],
             NoneSettled)
  /\ UNCHANGED <<cachedGraph, cachedTitle, reply, mergeVars, callVars>>

NextSelect ==
  \/ \E ok \in BOOLEAN : ManifestSettled(ok)
  \/ \E l \in loads : ImportDone(l)
  \/ \E l \in loads, ok \in BOOLEAN : FetchManifest(l, ok)
  \/ \E l \in loads, ok \in BOOLEAN : FetchFile(l, ok)
  \/ \E nodeId \in {"a", "b", NoVal} : NodeClick(nodeId)
  \/ \E next \in TimeScopes : SwitchTimeScope(next)
  \/ \E docId \in {"a", "b"} : ViewFullText(docId)
  \/ CloseDocument
  \/ StartNewNetwork
  \/ ResetToTopDown

SpecSelect == Init /\ [][NextSelect]_vars

(***************************************************************************)
(* The search form: requests with and without keywords and ticked fields   *)
(* are submitted for title 26 in both scopes                               *)
(***************************************************************************)
NextForm ==
  \/ \E ok \in BOOLEAN : ManifestSettled(ok)
  \/ \E l \in loads : ImportDone(l)
  \/ \E l \in loads, ok \in BOOLEAN : FetchManifest(l, ok)
  \/ \E l \in loads, ok \in BOOLEAN : FetchFile(l, ok)
  \/ \E next \in TimeScopes : SwitchTimeScope(next)
  \/ \E keywords \in {"tax", "alpha", " "}, searchFields \in SUBSET SearchFields :
       BottomUpSearch(keywords, 1, searchFields)

SpecForm == Init /\ [][NextForm]_vars

(***************************************************************************)
(* Title reloads: the titles are selected while earlier loads are in       *)
(* flight and every fetch may fail; the user selects nodes, searches and   *)
(* moves between the two views, in the initial time scope                  *)
(***************************************************************************)
NextReload ==
  \/ \E ok \in BOOLEAN : ManifestSettled(ok)
  \/ \E title \in TitleIds : SelectTitle(title)
  \/ \E l \in loads : ImportDone(l)
  \/ \E l \in loads, ok \in BOOLEAN : FetchManifest(l, ok)
  \/ \E l \in loads, ok \in BOOLEAN : FetchFile(l, ok)
  \/ \E l \in loads, ok \in BOOLEAN : FetchMeta(l, ok)
  \/ \E l \in loads, ok \in BOOLEAN : FetchParts(l, ok)
  \/ \E nodeId \in ClickIds : NodeClick(nodeId)
  \/ BottomUpSearch("tax", 1, SearchFields)
  \/ StartNewNetwork
  \/ ResetToTopDown

SpecReload == Init /\ [][NextReload]_vars

(***************************************************************************)
(* The loader and its cache under arbitrary callers                        *)
(***************************************************************************)
NextCache ==
  \/ \E title \in TitleIds : CallLoadGraph(title)
  \/ \E l \in loads, ok \in BOOLEAN : FetchManifest(l, ok)
  \/ \E l \in loads, ok \in BOOLEAN : FetchFile(l, ok)
  \/ \E l \in loads, ok \in BOOLEAN : FetchMeta(l, ok)
  \/ \E l \in loads, ok \in BOOLEAN : FetchParts(l, ok)
  \/ \E l \in loads : ReturnLoadGraph(l)
  \/ \E op \in Accessors, id \in ReadIds, timeScope \in TimeScopes :
       CallAccessor(op, id, timeScope)

SpecCache == Init /\ [][NextCache]_vars


(***************************************************************************)
(* The merge of a split dataset, exercised alone on every small input      *)
(***************************************************************************)
MaxParts == 2      \* part files of a split dataset

MergeNodePool ==
  { RawNode("c", "C", "index", Pre, 42), RawNode("c", "C2", "index", Pre, 42),
    RawNode("c", "C", "index", Post, 42), RawNode("d", "D", "concept", Pre, 42),
    RawNode("d", "D", "concept", Post, 42) }

MergeLinkPool == { RawLink("c", "d", "reference", NoVal, Pre) }

\* a part file holds at most two nodes and at most one link
PartPool ==
  { [nodes |-> ns, links |-> ls] :
      ns \in {<<>>} \cup {<<n>> : n \in MergeNodePool}
               \cup {<<n, m>> : n \in MergeNodePool, m \in MergeNodePool},
      ls \in {<<>>} \cup {<<k>> : k \in MergeLinkPool} }

\* loadGraph(42) was called by a caller other than the App with nothing cached,
\* the manifest and the meta-file have arrived and the part fetches are issued
PartsInFlight ==
  /\ cachedGraph = Null
  /\ cachedTitle = NoTitle
  /\ nextLoadId = 1
  /\ loads = {[id |-> 1, title |-> 42, caller |-> "direct", pc |-> "parts",
                data |-> Null, error |-> "none"]}
  /\ reply = NoReply

InitMerge ==
  /\ PartsInFlight
  /\ app = AppInit
  /\ mergeIn \in UNION {[1..n -> PartPool] : n \in 0..MaxParts}
  /\ partsArrived = [i \in DOMAIN mergeIn |-> i]
  /\ mergeOut = Null
  /\ CallIdle

\* loadRawGraphForTitle lines 44-62 once every part fetch has resolved, and
\* loadGraph from line 94 on the merged graph it returns
RunMerge ==
  /\ Len(partsArrived) = Len(mergeIn)
  /\ mergeOut' = MergeParts(PromiseAll(mergeIn, partsArrived))
  /\ \E l \in loads : l.pc = "parts" /\ StoreGraph(l, mergeOut')
  /\ UNCHANGED <<nextLoadId, reply, mergeIn, partsArrived, callVars>>

NextMerge == RunMerge

SpecMerge == InitMerge /\ [][NextMerge]_vars

(***************************************************************************)
(* The part fetches of a split dataset: they are issued together (line 44) *)
(* and resolve one by one in any order; one that fails rejects the load    *)
(***************************************************************************)
PartsNodes ==
  { << RawNode("a", "A", "index", Pre, 42), RawNode("b", "B", "index", Pre, 42) >>,
    << RawNode("a", "A", "index", Post, 42), RawNode("c", "C", "index", Post, 42),
       RawNode("d", "D", "concept", Post, 42) >> }

PartsLinks ==
  LET ab == RawLink("a", "b", "reference", NoVal, Pre)
      bc == RawLink("b", "c", "reference", NoVal, Pre)
      ac == RawLink("a", "c", "hierarchy", NoVal, Post)
      aa == RawLink("a", "a", "reference", NoVal, Post)
  IN {<<>>, <<ab>>, <<ac>>, <<aa>>, <<ab, bc>>}

PartsPool == {[nodes |-> ns, links |-> ls] : ns \in PartsNodes, ls \in PartsLinks}

InitParts ==
  /\ PartsInFlight
  /\ app = AppInit
  /\ mergeIn \in UNION {[1..n -> PartsPool] : n \in 0..MaxParts}
  /\ partsArrived = <<>>
  /\ mergeOut = Null
  /\ CallIdle

\* fetchJson(p.file) of the i-th part resolves
PartArrives(i) ==
  /\ \E l \in loads : l.pc = "parts"
  /\ \A k \in DOMAIN partsArrived : partsArrived[k] # i
  /\ partsArrived' = Append(partsArrived, i)
  /\ UNCHANGED <<apiVars, app, mergeIn, mergeOut, callVars>>

\* fetchJson(p.file) of the i-th part throws: Promise.all rejects at once and
\* loadRawGraphForTitle throws at line 44
PartFails(i) ==
  /\ \A k \in DOMAIN partsArrived : partsArrived[k] # i
  /\ \E l \in loads : l.pc = "parts" /\ FailLoad(l)
  /\ UNCHANGED <<nextLoadId, reply, mergeVars, callVars>>

NextParts ==
  \/ \E i \in DOMAIN mergeIn : PartArrives(i)
  \/ \E i \in DOMAIN mergeIn : PartFails(i)
  \/ RunMerge
  \/ \E l \in loads : ReturnLoadGraph(l)

SpecParts == InitParts /\ [][NextParts]_vars

(***************************************************************************)
(* The trimming of a listing, exercised alone on every small input: the    *)
(* body of loadData past the await (App.tsx 467-546) and the part of       *)
(* executeBottomUpSearch past the builder (237-288)                        *)
(***************************************************************************)
MaxListed == 4     \* entries of a listing
MaxDepth == 2      \* expansion levels a builder request asks for

\* a dataset of one scope for the builder: a matches "tax" and "alpha" in
\* different fields, b, d and f match "tax", c and e match nothing; a has four
\* neighbours, two of them of equal degree
BuilderRaw ==
  [nodes |-> << [RawNode("a", "A", "index", Pre, 26) EXCEPT !.text = "tax"],
                RawNode("b", "B", "index", Pre, 26),
                RawNode("c", "C", "concept", Pre, 26),
                RawNode("d", "D", "concept", Pre, 26),
                RawNode("e", "E", "index", Pre, 26),
                RawNode("f", "F", "index", Pre, 26) >>,
   links |-> << RawLink("a", "c", "reference", NoVal, Pre),
                RawLink("e", "a", "reference", NoVal, Pre),
                RawLink("a", "b", "reference", NoVal, Pre),
                RawLink("c", "d", "hierarchy", NoVal, Pre),
                RawLink("d", "a", "hierarchy", NoVal, Pre),
                RawLink("e", "c", "reference", NoVal, Pre),
                RawLink("b", "f", "reference", NoVal, Pre) >>]

\* a listing of up to MaxListed links among four nodes, a limit of one to three
\* links and a budget of one to three nodes, or none; a request to the builder
\* bound on the number of files the manifest script finds in public/
MaxFiles == 3

\* names fs.readdirSync may list: titles named with and without a leading
\* zero, in either letter case, a part file and the manifest itself
PublicFiles ==
  {"title-7.json", "title-07.meta.json", "title-26.json", "title-26.meta.json",
   "Title-42.meta.json", "title-42.part1.json", "titles-manifest.json"}

\* the manifest script: both scans of the listing, the union of the ids, the
\* sort by Number(id) and the choice of the split entry over the single one
BuildManifest(files) ==
  LET \* m[1] of /^title-(\d+)\.json$/i
      single(f) == CASE f = "title-7.json" -> "7"
                     [] f = "title-26.json" -> "26"
                     [] OTHER -> NoVal
      \* m[1] of /^title-(\d+)\.meta\.json$/i
      split(f) == CASE f = "title-07.meta.json" -> "07"
                    [] f = "title-26.meta.json" -> "26"
                    [] f = "Title-42.meta.json" -> "42"
                    [] OTHER -> NoVal
      Number(id) == CASE id = "7" -> 7 [] id = "07" -> 7
                      [] id = "26" -> 26 [] id = "42" -> 42
      \* Map.set over the listing: the keys in the order of their first set,
      \* the value of a key that of its last set
      keys(match(_)) ==
        Uniq([i \in DOMAIN SelectSeq(files, LAMBDA f : match(f) # NoVal) |->
                match(SelectSeq(files, LAMBDA f : match(f) # NoVal)[i])])
      last(match(_), id) ==
        files[CHOOSE i \in DOMAIN files :
                /\ match(files[i]) = id
                /\ \A j \in DOMAIN files : match(files[j]) = id => j <= i]
      has(match(_), id) == \E i \in DOMAIN files : match(files[i]) = id
      allIds == Uniq(keys(single) \o keys(split))
      sorted == StableSort(allIds, LAMBDA a, b : Number(a) < Number(b))
  IN [version |-> 1,
      titles |-> [k \in DOMAIN sorted |->
                    IF has(split, sorted[k])
                    THEN [id |-> sorted[k], kind |-> "split", meta |-> last(split, sorted[k])]
                    ELSE [id |-> sorted[k], kind |-> "single",
                          file |-> last(single, sorted[k])]]]

\* a dataset of more nodes than a search lists: the names repeat, two nodes
\* are shown under a label, three nodes are of the other scope
ActorsRaw ==
  LET names == <<"A", "Alpha", "alpha", "tax", "B">>
      named(i, time) == RawNode(ToString(i), names[((i - 1) % 5) + 1], "index", time, 26)
      shown(i, time) ==
        IF i = 4 THEN [named(i, time) EXCEPT !.display_label = "A"]
        ELSE IF i = 5 THEN [named(i, time) EXCEPT !.display_label = "Alpha"]
        ELSE named(i, time)
  IN [nodes |-> [i \in 1..(SearchLimit + 6) |-> shown(i, Pre)]
                \o [i \in 1..3 |-> named(i + 1, Post)],
      links |-> <<>>]

CallInputs ==
  LET pairs == {<<"a", "b">>, <<"a", "c">>, <<"c", "d">>, <<"a", "a">>}
      listings == UNION {[1..n -> pairs] : n \in 0..MaxListed}
      rel(es, i) == [id |-> i - 1, doc_id |-> es[i][1], actor |-> es[i][1],
                     action |-> NoVal, target |-> es[i][2],
                     actor_type |-> "index", target_type |-> "index",
                     actor_id |-> es[i][1], target_id |-> es[i][2]]
      ids(es) == {es[i][1] : i \in DOMAIN es} \cup {es[i][2] : i \in DOMAIN es}
      nodes(es) == SelectSeq(<<"a", "b", "c", "d">>, LAMBDA x : x \in ids(es))
  IN {[fn |-> "loadData",
       response |-> [relationships |-> [i \in DOMAIN es |-> rel(es, i)],
                     totalBeforeLimit |-> Len(es)],
       c |-> [limit |-> limit, maxHops |-> maxHops,
              enabledNodeTypes |-> AppInit.enabledNodeTypes,
              enabledCategories |-> AppInit.enabledCategories, timeScope |-> Pre]] :
        es \in listings, limit \in 1..3, maxHops \in {NoHops} \cup 1..3}
     \cup
     {[fn |-> "executeBottomUpSearch",
       filtered |-> [nodes |-> [k \in DOMAIN nodes(es) |->
                                  RawNode(nodes(es)[k], nodes(es)[k], "index", Pre, 26)]
                               \o << RawNode("e", "e", "index", Pre, 26) >>,
                     links |-> [i \in DOMAIN es |->
                                  RawLink(es[i][1], es[i][2], "reference", NoVal, Pre)],
                     truncated |-> truncated, matchedCount |-> Len(nodes(es)) + 1],
       limit |-> limit] :
        es \in listings, limit \in 1..3, truncated \in BOOLEAN}
     \cup
     {[fn |-> "buildNetwork",
       builder |-> scopedFullGraph(BuildGraph(BuilderRaw, 1), Pre),
       st |-> [searchTerms |-> SearchTerms(keywords),
               searchFields |-> searchFields,
               allowedNodeTypes |-> nodeTypes,
               allowedEdgeTypes |-> edgeTypes,
               expansionDepth |-> expansionDepth,
               maxNodesPerExpansion |-> maxNodesPerExpansion,
               maxTotalNodes |-> maxTotalNodes],
       searchLogic |-> searchLogic,
       nodeRankingMode |-> nodeRankingMode] :
        keywords \in {"tax", "alpha", "tax, alpha"},
        searchFields \in (SUBSET SearchFields) \ {{}},
        nodeTypes \in {{"index"}, {"index", "concept"}},
        edgeTypes \in {{"reference"}, {"reference", "hierarchy"}},
        expansionDepth \in 0..MaxDepth,
        maxNodesPerExpansion \in {1, 2, MaxNodesPerExpansion},
        maxTotalNodes \in {1, 2, 3, 1500},
        searchLogic \in {"AND", "OR"},
        nodeRankingMode \in {"global", "subgraph"}}
     \cup
     {[fn |-> "fetchRelationships",
       cachedGraph |-> BuildGraph(raw, 1),
       limit |-> limit, categories |-> categories, timeScope |-> timeScope] :
        raw \in {File26, BuilderRaw},
        limit \in 0..MaxListed,
        categories \in SUBSET {"reference", "definition", "hierarchy"},
        timeScope \in TimeScopes}
     \cup
     {[fn |-> "fetchActorRelationships",
       cachedGraph |-> BuildGraph(raw, 1),
       actorId |-> actorId, categories |-> categories, timeScope |-> timeScope] :
        raw \in {File26, BuilderRaw},
        actorId \in {"a", "b", "c", "z"},
        categories \in {{}, {"definition"}, {"hierarchy"}},
        timeScope \in TimeScopes}
     \cup
     {[fn |-> "searchActors",
       cachedGraph |-> BuildGraph(raw, 1), query |-> query, timeScope |-> timeScope] :
        raw \in {File26, BuilderRaw, ActorsRaw},
        query \in {"a", "alpha", "Alpha", "c", "tax", "B", ""},
        timeScope \in TimeScopes}
     \cup
     {[fn |-> "buildManifest", files |-> files] :
        files \in {fs \in UNION {[1..n -> PublicFiles] : n \in 0..MaxFiles} :
                     \A i, j \in DOMAIN fs : fs[i] = fs[j] => i = j}}

InitCalls ==
  /\ ApiInit
  /\ app = AppInit
  /\ MergeIdle
  /\ callIn \in CallInputs
  /\ callOut = Null

\* loadData, lines 467-546, on the response of fetchRelationships
CallLoadData ==
  /\ callIn.fn = "loadData"
  /\ callOut = Null
  /\ callOut' = LoadDataResult(callIn.response, <<>>, callIn.c)
  /\ UNCHANGED <<apiVars, app, mergeVars, callIn>>

\* executeBottomUpSearch, lines 237-288, on the network the builder returned
CallSearchDisplay ==
  /\ callIn.fn = "executeBottomUpSearch"
  /\ callOut = Null
  /\ callOut' = SearchDisplay(callIn.filtered, callIn.limit)
  /\ UNCHANGED <<apiVars, app, mergeVars, callIn>>

\* executeBottomUpSearch line 232: builder.buildNetwork(builderState, ...)
CallBuildNetwork ==
  /\ callIn.fn = "buildNetwork"
  /\ callOut = Null
  /\ callOut' = BuildNetwork(callIn.builder, callIn.st, callIn.searchLogic,
                             callIn.nodeRankingMode)
  /\ UNCHANGED <<apiVars, app, mergeVars, callIn>>

\* fetchRelationships, lines 161-213, on a loaded cache
CallFetchRelationships ==
  /\ callIn.fn = "fetchRelationships"
  /\ callOut = Null
  /\ callOut' = RelationshipsOf(callIn.cachedGraph, callIn.limit, callIn.categories,
                                callIn.timeScope)
  /\ UNCHANGED <<apiVars, app, mergeVars, callIn>>

\* fetchActorRelationships, lines 216-271, on a loaded cache; the categories
\* argument is not read
CallFetchActorRelationships ==
  /\ callIn.fn = "fetchActorRelationships"
  /\ callOut = Null
  /\ callOut' = ActorRelationshipsOf(callIn.cachedGraph, callIn.actorId, callIn.timeScope)
  /\ UNCHANGED <<apiVars, app, mergeVars, callIn>>

\* searchActors, lines 332-356, on a loaded cache: the array it resolves to
CallSearchActors ==
  /\ callIn.fn = "searchActors"
  /\ callOut = Null
  /\ callOut' = [actors |-> SearchActorsOf(callIn.cachedGraph, callIn.query,
                                           callIn.timeScope)]
  /\ UNCHANGED <<apiVars, app, mergeVars, callIn>>

\* the manifest script run on a listing of public/
CallBuildManifest ==
  /\ callIn.fn = "buildManifest"
  /\ callOut = Null
  /\ callOut' = BuildManifest(callIn.files)
  /\ UNCHANGED <<apiVars, app, mergeVars, callIn>>

NextCalls ==
  \/ CallBuildManifest
  \/ CallSearchActors
  \/ CallLoadData
  \/ CallSearchDisplay
  \/ CallBuildNetwork
  \/ CallFetchRelationships
  \/ CallFetchActorRelationships

SpecCalls == InitCalls /\ [][NextCalls]_vars

(***************************************************************************)
(* components/RightSidebar.tsx (src/unnamed/part_001): the expansion of a  *)
(* listed relationship.  The component is driven by its props; it is       *)
(* exercised on the listings api.ts returns for title 26, while another    *)
(* caller loads the title, so that the lookup meets both an empty cache    *)
(* and a loaded one.  Its label effects (lines 78-148) write displayLabels *)
(* and the selected actor's label only and are left out.                   *)
(***************************************************************************)
\* { ...prev, [key]: value }
Put(obj, key, value) ==
  [k \in DOMAIN obj \cup {key} |-> IF k = key THEN value ELSE obj[k]]

\* variant: a lookup that finds nothing or throws records nothing
toggleExpand_SkipsFailure(cg, selectedActor, sb, rel) ==
  IF sb.expandedRelId = rel.id THEN [sb EXCEPT !.expandedRelId = NoRel]
  ELSE LET expanded == [sb EXCEPT !.expandedRelId = rel.id]
           neighborId == IF rel.actor_id = selectedActor THEN rel.target_id
                         ELSE rel.actor_id
           recorded(details) ==
             IF details = Null THEN expanded
             ELSE [expanded EXCEPT
                !.nodeDetails = Put(@, neighborId, details),
                !.displayLabels =
                   IF /\ details # Null
                      /\ details.node_type = "index"
                      /\ details.display_label # NoVal
                   THEN Put(@, neighborId, details.display_label)
                   ELSE @]
       IN IF neighborId \in {NoVal, ""} THEN expanded
          ELSE IF neighborId \in DOMAIN sb.nodeDetails THEN expanded
          ELSE IF ~GraphLoaded(cg)
          THEN [expanded EXCEPT !.consoleErrors = @ + 1]
          ELSE recorded(NodeDetailsOf(cg, neighborId, NoVal))

\* toggleExpand, lines 163-189, with the sidebar's state sb; fetchNodeDetails is
\* called with the node id alone, so that its timeScope is undefined, and its
\* continuation runs within the task of the click
toggleExpand(cg, selectedActor, sb, rel) ==
  IF sb.expandedRelId = rel.id THEN [sb EXCEPT !.expandedRelId = NoRel]
  ELSE LET expanded == [sb EXCEPT !.expandedRelId = rel.id]
           neighborId == IF rel.actor_id = selectedActor THEN rel.target_id
                         ELSE rel.actor_id
           recorded(details) ==
             [expanded EXCEPT
                !.nodeDetails = Put(@, neighborId, details),
                !.displayLabels =
                   IF /\ details # Null
                      /\ details.node_type = "index"
                      /\ details.display_label # NoVal
                   THEN Put(@, neighborId, details.display_label)
                   ELSE @]
       IN IF neighborId \in {NoVal, ""} THEN expanded
          ELSE IF neighborId \in DOMAIN sb.nodeDetails THEN expanded
          ELSE IF ~GraphLoaded(cg)
          THEN [expanded EXCEPT !.nodeDetails = Put(@, neighborId, Null),
                                !.consoleErrors = @ + 1]
          ELSE recorded(NodeDetailsOf(cg, neighborId, NoVal))

\* the props of the sidebar: a selected node of title 26 and its listing in a scope
SidebarProps ==
  {[fn |-> "RightSidebar", selectedActor |-> id, timeScope |-> timeScope,
    relationships |->
      ActorRelationshipsOf(BuildGraph(File26, 1), id, timeScope).relationships] :
     id \in {"a", "b"}, timeScope \in TimeScopes}

\* lines 28-37 of the component, and nothing logged
InitSidebar ==
  /\ ApiInit
  /\ app = AppInit
  /\ MergeIdle
  /\ callIn \in SidebarProps
  /\ callOut = [expandedRelId |-> NoRel, nodeDetails |-> [k \in {} |-> Null],
                displayLabels |-> [k \in {} |-> Null], consoleErrors |-> 0]

\* the user clicks the i-th relationship of the list
ToggleExpand(i) ==
  /\ callOut' = toggleExpand(cachedGraph, callIn.selectedActor, callOut,
                             callIn.relationships[i])
  /\ UNCHANGED <<apiVars, app, mergeVars, callIn>>

NextSidebar ==
  \/ CallLoadGraph(InitialTitle)
  \/ \E l \in loads, ok \in BOOLEAN : FetchManifest(l, ok)
  \/ \E l \in loads, ok \in BOOLEAN : FetchFile(l, ok)
  \/ \E l \in loads : ReturnLoadGraph(l)
  \/ \E i \in DOMAIN callIn.relationships : ToggleExpand(i)

SpecSidebar == InitSidebar /\ [][NextSidebar]_vars

(***************************************************************************)
(* Properties                                                              *)
(***************************************************************************)
\* the load that was called in this step, if any: it was not in flight before,
\* or it was still waiting for the api module
CalledNow(l2) ==
  /\ l2 \in loads'
  /\ l2.pc # "import"
  /\ \A l \in loads : l.id = l2.id => l.pc = "import"

\* C5: a call of loadGraph(T) made while the cache holds a graph for title T
\* resolves with that very graph object, starts no fetch, and leaves
\* cachedGraph and cachedTitle as they were.
C5_RepeatedTitleReturnsCache ==
  [][\A l2 \in loads' :
       (CalledNow(l2) /\ cachedGraph # Null /\ cachedTitle = l2.title)
         => /\ l2.pc = "resolved"
            /\ l2.data = cachedGraph
            /\ cachedGraph' = cachedGraph
            /\ cachedTitle' = cachedTitle]_vars

\* a caller holds the object of an earlier load, handed out by a later call
C5_Witness ==
  \E l \in loads : l.pc = "resolved" /\ l.data # Null /\ l.data.oid < l.id

\* C6: a load of a title without manifest entry never gets past the manifest
\* and rejects with NotFound, a load rejects only with NotFound or FetchFailure,
\* and the step in which a load rejects leaves cachedGraph and cachedTitle as
\* they were.
C6_FailedLoadKeepsCache ==
  [][\A l \in loads, l2 \in loads' :
       (l2.id = l.id /\ l.pc # "rejected" /\ l2.pc = "rejected")
         => /\ cachedGraph' = cachedGraph
            /\ cachedTitle' = cachedTitle
            /\ l2.error \in {"NotFound", "FetchFailure"}
            /\ (ManifestItem(l.title) = Null /\ l2.error # "FetchFailure"
                  => l2.error = "NotFound" /\ l.pc = "manifest")
            /\ l2.data = Null]_vars

\* a load has failed while an earlier graph is cached
C6_Witness ==
  \E l \in loads : l.pc = "rejected" /\ cachedGraph # Null /\ cachedTitle # l.title

\* C8: the cache is either empty (no graph, no title) or holds the complete
\* node and link set that one successful load of cachedTitle produces; the
\* pair never shows a graph with another load's title.
C8_OneCompleteGraph ==
  \/ cachedGraph = Null /\ cachedTitle = NoTitle
  \/ /\ cachedGraph # Null
     /\ ManifestItem(cachedTitle) # Null
     /\ cachedGraph = BuildGraph(RawOf(cachedTitle), cachedGraph.oid)

\* the cache was replaced by a second load while a reader holds a reply
C8_Witness ==
  /\ cachedGraph # Null
  /\ cachedGraph.oid > 1
  /\ cachedTitle = 42
  /\ reply.status = "ok"

\* C9: a read accessor called while no graph is cached fails with the
\* not-loaded error, hands out no data and changes nothing but the reply.
C9_AccessorsFailBeforeLoad ==
  [][(reply' # reply /\ reply'.op \in Accessors /\ cachedGraph = Null)
       => /\ reply'.status = "StateError"
          /\ reply'.data = Null
          /\ UNCHANGED <<cachedGraph, cachedTitle, loads, nextLoadId, app>>]_vars

\* every accessor has been refused at least once is too much for one state;
\* the last one listed has been refused
C9_Witness ==
  /\ reply.op = "fetchNodeDetails"
  /\ reply.status = "StateError"
  /\ cachedGraph = Null


\* C10: the merged node list of a split dataset holds, for every (time scope,
\* id) pair that occurs in some part, exactly one node, and that node is the
\* first one with the pair when the parts are read in listed order; it holds
\* nothing else, so the same id under two scopes is kept twice.
C10_MergeKeepsFirstPerScopedId ==
  mergeOut # Null =>
    LET all == Concat([i \in DOMAIN mergeIn |-> mergeIn[i].nodes])
        out == mergeOut.nodes
        first(i) == \A j \in DOMAIN all :
                      (all[j].time = all[i].time /\ all[j].id = all[i].id) => i <= j
    IN /\ \A i \in DOMAIN all :
            first(i) =>
              \E j \in DOMAIN out :
                /\ out[j] = all[i]
                /\ \A k \in DOMAIN out :
                     (out[k].time = all[i].time /\ out[k].id = all[i].id) => k = j
       /\ \A j \in DOMAIN out : \E i \in DOMAIN all : first(i) /\ out[j] = all[i]

\* a later duplicate was dropped and an id is kept under both scopes
C10_Witness ==
  /\ mergeOut # Null
  /\ Len(mergeIn) = 2
  /\ Len(mergeOut.nodes) = 2
  /\ Len(mergeIn[1].nodes) + Len(mergeIn[2].nodes) = 3
  /\ mergeIn[1].nodes[1].id = mergeIn[2].nodes[1].id
  /\ mergeIn[1].nodes[1].time = mergeIn[2].nodes[1].time
  /\ mergeIn[1].nodes[1].name # mergeIn[2].nodes[1].name
  /\ mergeOut.nodes[1].id = mergeOut.nodes[2].id
  /\ mergeOut.nodes[1].time # mergeOut.nodes[2].time

\* C11: the merged link list of a split dataset is the concatenation of the
\* link lists of its parts in the order the meta-file lists them: every link of
\* every part is there, duplicates included, at the offset of its part, in
\* whatever order the part fetches resolved
C11_LinksConcatenatedInListedOrder ==
  mergeOut # Null =>
    LET RECURSIVE offset(_)
        offset(i) == IF i = 1 THEN 0 ELSE offset(i - 1) + Len(mergeIn[i - 1].links)
    IN /\ Len(mergeOut.links) = offset(Len(mergeIn) + 1)
       /\ \A i \in DOMAIN mergeIn : \A j \in DOMAIN mergeIn[i].links :
            mergeOut.links[offset(i) + j] = mergeIn[i].links[j]

\* the second part arrived first, the parts hold different link lists and a
\* link of the first part occurs again in the second
C11_Witness ==
  /\ mergeOut # Null
  /\ partsArrived = <<2, 1>>
  /\ Len(mergeIn[1].links) = 2
  /\ mergeIn[1].links[1] # mergeIn[1].links[2]
  /\ mergeIn[2].links = <<mergeIn[1].links[1]>>
  /\ Len(mergeOut.links) = 3
  /\ mergeOut.links[3] = mergeOut.links[1]

\* C12: the degree of a cached node is the number of link ends, over the whole
\* merged link list of both scopes, that carry its raw id: a link counts once
\* for its source and once for its target, an id no link names has degree 0,
\* nodes of the same id have the same degree in every scope, and the links
\* A->B, B->C, A->C give A, B and C the degree 2
C12_DegreeCountsEndsOverAllScopes ==
  (cachedGraph # Null /\ mergeOut # Null) =>
    LET links == mergeOut.links
        ends(id) == {e \in (DOMAIN links) \X {"source", "target"} : links[e[1]][e[2]] = id}
        nodes == cachedGraph.nodes
        pairs == [i \in DOMAIN links |-> <<links[i].source, links[i].target>>]
    IN /\ \A i \in DOMAIN nodes : nodes[i].val = Cardinality(ends(nodes[i].id))
       /\ \A i, j \in DOMAIN nodes : nodes[i].id = nodes[j].id => nodes[i].val = nodes[j].val
       /\ pairs = << <<"a", "b">>, <<"b", "c">>, <<"a", "c">> >>
            => \A i \in DOMAIN nodes : nodes[i].id \in {"a", "b", "c"} => nodes[i].val = 2

\* the links A->B, B->C of one scope and A->C of the other are merged, A is a
\* node of both scopes, and D is named by no link
C12_Witness ==
  /\ cachedGraph # Null /\ mergeOut # Null
  /\ [i \in DOMAIN mergeOut.links |-> <<mergeOut.links[i].source, mergeOut.links[i].target>>]
       = << <<"a", "b">>, <<"b", "c">>, <<"a", "c">> >>
  /\ \E i, j \in DOMAIN cachedGraph.nodes :
       /\ cachedGraph.nodes[i].id = "a" /\ cachedGraph.nodes[j].id = "a"
       /\ cachedGraph.nodes[i].time # cachedGraph.nodes[j].time
       /\ cachedGraph.nodes[i].val = 2 /\ cachedGraph.nodes[j].val = 2
  /\ \E i \in DOMAIN cachedGraph.nodes :
       cachedGraph.nodes[i].id = "d" /\ cachedGraph.nodes[i].val = 0

\* C13: the view projected for the active scope S holds exactly the nodes of
\* the full graph tagged S, in their order, and exactly its links that are
\* tagged S and whose source and target are both ids of those nodes; a link of
\* another scope, or with an end that is no node of S, is not in it; and a
\* step that changes the scope leaves the cached graph and the full graph alone
C13_ProjectionIsScoped ==
  [][LET g == app'.fullGraph
         S == app'.timeScope
         view == app'.builder
         ids == {g.nodes[i].id : i \in {i \in DOMAIN g.nodes : g.nodes[i].time = S}}
         inS(l) == l.time = S /\ l.source \in ids /\ l.target \in ids
     IN /\ \A i \in DOMAIN view.nodes : view.nodes[i].time = S
        /\ \A i \in DOMAIN view.links : inS(view.links[i])
        /\ Len(view.nodes) = Cardinality({i \in DOMAIN g.nodes : g.nodes[i].time = S})
        /\ Len(view.links) = Cardinality({i \in DOMAIN g.links : inS(g.links[i])})
        /\ \A i \in DOMAIN g.nodes :
             g.nodes[i].time = S => \E j \in DOMAIN view.nodes : view.nodes[j] = g.nodes[i]
        /\ \A i \in DOMAIN g.links :
             inS(g.links[i]) => \E j \in DOMAIN view.links : view.links[j] = g.links[i]
        /\ app'.timeScope # app.timeScope
             => cachedGraph' = cachedGraph /\ app'.fullGraph = app.fullGraph]_vars

\* the full graph holds a link of the active scope whose target is a node of
\* the other scope only: the view has the scope's node and not the link
C13_Witness ==
  /\ app.timeScope = Post
  /\ \E i \in DOMAIN app.fullGraph.links :
       /\ app.fullGraph.links[i].time = Post
       /\ \A j \in DOMAIN app.fullGraph.nodes :
            app.fullGraph.nodes[j].id = app.fullGraph.links[i].target
              => app.fullGraph.nodes[j].time = Pre
  /\ Len(app.builder.nodes) = 1
  /\ app.builder.links = <<>>

\* C14: when the scope is switched from S1 to S2 while a node X of the full
\* graph is selected in S1, the selection becomes X in S2 if the full graph has
\* a node X in S2, and is cleared if it has none
C14_SelectionFollowsScopeSwitch ==
  [][(/\ app.selectedNode # Null
      /\ app.selectedNode.scope = app.timeScope
      /\ \E i \in DOMAIN app.fullGraph.nodes :
           /\ app.fullGraph.nodes[i].id = app.selectedNode.id
           /\ app.fullGraph.nodes[i].time = app.timeScope
      /\ app'.timeScope # app.timeScope)
     => IF \E i \in DOMAIN app.fullGraph.nodes :
             /\ app.fullGraph.nodes[i].id = app.selectedNode.id
             /\ app.fullGraph.nodes[i].time = app'.timeScope
        THEN app'.selectedNode = [id |-> app.selectedNode.id, scope |-> app'.timeScope]
        ELSE app'.selectedNode = Null]_vars

\* C16: when the scope is switched while a bottom-up search is active, every
\* render from the switch to the end of the re-run shows either the result that
\* was on display before or the result of the re-run under the new scope, never
\* anything else, the loading flag stays as it was in each of them, and the
\* re-run's result is what is on display in the end
C16_ResultKeptDuringScopeSwitch ==
  [][(/\ app.buildMode = "bottomUp"
      /\ NonBlank(app.bottomUpSearchKeywords)
      /\ app.bottomUpSearchParams # Null
      /\ app'.timeScope # app.timeScope)
     => LET h == switchTimeScope(app, app'.timeScope)
            rendered == Renders(cachedGraph, app, h.st, h.fresh)
            rerun == RunOutput([params |-> app.bottomUpSearchParams,
                                builder |-> scopedFullGraph(app.fullGraph, app'.timeScope),
                                limit |-> app.limit])
        IN /\ \A i \in DOMAIN rendered :
                /\ rendered[i].displayGraph \in {app.displayGraph, rerun}
                /\ rendered[i].loading = app.loading
           /\ rendered[1].displayGraph = app.displayGraph
           /\ app'.displayGraph = rerun]_vars

\* a scope switch has just been carried out under an active bottom-up search,
\* and the re-run's non-empty result for the new scope is on display
C16_Witness ==
  /\ app.lastSettled.kind = "switchTimeScope"
  /\ app.buildMode = "bottomUp"
  /\ NonBlank(app.bottomUpSearchKeywords)
  /\ app.bottomUpSearchParams # Null
  /\ app.timeScope = "post-OBBBA"
  /\ app.displayGraph.nodes # <<>>
  /\ ~app.loading

\* C17: a candidate list of more than limit links is cut to exactly limit of
\* them, each kept link ranking before each dropped one by the sum of its two
\* endpoints' degrees within the candidate list, equal sums by the earlier
\* position in the list (of the scores 10, 8, 8, 3, 1 with limit 3 the first three
\* are kept); a list of at most limit links is returned as it is
C17_LimitKeepsHighestScoring ==
  LET trimmed(cand, ends, out, limit) ==
        LET deg(x) == Cardinality({e \in (DOMAIN ends) \X {1, 2} : ends[e[1]][e[2]] = x})
            score(i) == deg(ends[i][1]) + deg(ends[i][2])
            outranks(i, j) == score(i) > score(j) \/ (score(i) = score(j) /\ i < j)
        IN IF Len(cand) <= limit THEN out = cand
           ELSE /\ Len(out) = limit
                /\ \E kept \in SUBSET DOMAIN cand :
                     /\ Cardinality(kept) = limit
                     /\ \A i \in kept : \A j \in (DOMAIN cand) \ kept : outranks(i, j)
                     /\ {out[k] : k \in DOMAIN out} = {cand[i] : i \in kept}
                     /\ \A i \in kept :
                          Cardinality({k \in DOMAIN out : out[k] = cand[i]})
                            = Cardinality({j \in kept : cand[j] = cand[i]})
      scores == <<10, 8, 8, 3, 1>>
  IN /\ Take(StableSort(<<1, 2, 3, 4, 5>>, LAMBDA x, y : scores[x] > scores[y]), 3)
          = <<1, 2, 3>>
     /\ callOut # Null =>
          IF callIn.fn = "loadData"
          THEN LET rels == callIn.response.relationships
                   ends == [i \in DOMAIN rels |-> <<rels[i].actor_id, rels[i].target_id>>]
                   touched == {ends[i][1] : i \in DOMAIN ends}
                                \cup {ends[i][2] : i \in DOMAIN ends}
               IN (callIn.c.maxHops = NoHops \/ Cardinality(touched) <= callIn.c.maxHops)
                  => trimmed(rels, ends, callOut.relationships, callIn.c.limit)
          ELSE callIn.fn = "executeBottomUpSearch" =>
               LET links == callIn.filtered.links
                   ends == [i \in DOMAIN links |-> <<links[i].source, links[i].target>>]
               IN trimmed(links, ends, callOut.links, callIn.limit)

\* three links were listed with a limit of two: the link of the highest score
\* was the last of them, the other two had equal scores, and the first was kept
C17_Witness ==
  /\ callOut # Null
  /\ callIn.fn = "executeBottomUpSearch"
  /\ callIn.limit = 2
  /\ Len(callIn.filtered.links) = 3
  /\ <<callIn.filtered.links[1].source, callIn.filtered.links[1].target>> = <<"c", "d">>
  /\ <<callIn.filtered.links[2].source, callIn.filtered.links[2].target>> = <<"a", "b">>
  /\ <<callIn.filtered.links[3].source, callIn.filtered.links[3].target>> = <<"a", "c">>
  /\ callOut.links = <<callIn.filtered.links[3], callIn.filtered.links[1]>>

\* C18: when a relationship listing touches more distinct node ids than the node
\* budget, budget-many ids are kept, none of them of a lower degree within the
\* listing than a dropped one, the relationships left are those whose two ends
\* are kept ids, in their order, and they touch at most budget distinct ids; a
\* listing within the budget is left as it is (the link limit not being exceeded)
C18_NodeBudgetKeepsTopNodes ==
  (callOut # Null /\ callIn.fn = "loadData" /\ callIn.c.maxHops # NoHops) =>
    LET rels == callIn.response.relationships
        budget == callIn.c.maxHops
        out == callOut.relationships
        ids(rs) == {rs[i].actor_id : i \in DOMAIN rs} \cup {rs[i].target_id : i \in DOMAIN rs}
        deg(x) == Cardinality({i \in DOMAIN rels : rels[i].actor_id = x})
                  + Cardinality({i \in DOMAIN rels : rels[i].target_id = x})
    IN IF Cardinality(ids(rels)) > budget
       THEN \E allowed \in SUBSET ids(rels) :
              /\ Cardinality(allowed) = budget
              /\ \A x \in allowed : \A y \in ids(rels) \ allowed : deg(x) >= deg(y)
              /\ \A k \in DOMAIN out : {out[k].actor_id, out[k].target_id} \subseteq allowed
              /\ Cardinality(ids(out)) <= budget
              /\ Len(rels) <= callIn.c.limit
                   => out = SelectSeq(rels, LAMBDA r :
                              r.actor_id \in allowed /\ r.target_id \in allowed)
       ELSE Len(rels) <= callIn.c.limit => out = rels

\* three relationships among four nodes were listed with a budget of two nodes:
\* the one between the two nodes of degree two is left
C18_Witness ==
  /\ callOut # Null
  /\ callIn.fn = "loadData"
  /\ callIn.c.maxHops = 2
  /\ callIn.c.limit = 3
  /\ Len(callIn.response.relationships) = 3
  /\ [i \in 1..3 |-> <<callIn.response.relationships[i].actor_id,
                        callIn.response.relationships[i].target_id>>]
       = << <<"a", "b">>, <<"a", "c">>, <<"c", "d">> >>
  /\ callOut.relationships = <<callIn.response.relationships[2]>>

\* C19: when a relationship is expanded and the lookup of its neighbour finds no
\* node in the scope it is given, or throws because no graph is loaded, null is
\* recorded as the details of that node, the details recorded for other nodes
\* stay, and the listing, the state of the App (its search state included) and
\* the cache are left as they were
C19_FailedLookupRecordsNull ==
  [][\A i \in DOMAIN callIn.relationships :
       LET rel == callIn.relationships[i]
           neighborId == IF rel.actor_id = callIn.selectedActor THEN rel.target_id
                         ELSE rel.actor_id
           found == /\ GraphLoaded(cachedGraph)
                    /\ \E k \in DOMAIN cachedGraph.nodes :
                         /\ neighborId \in {cachedGraph.nodes[k].id, cachedGraph.nodes[k].name}
                         /\ cachedGraph.nodes[k].time = NoVal
       IN (/\ callOut.expandedRelId # rel.id
           /\ callOut'.expandedRelId = rel.id
           /\ neighborId \notin DOMAIN callOut.nodeDetails
           /\ ~found)
          => /\ neighborId \in DOMAIN callOut'.nodeDetails
             /\ callOut'.nodeDetails[neighborId] = Null
             /\ \A k \in DOMAIN callOut.nodeDetails :
                  callOut'.nodeDetails[k] = callOut.nodeDetails[k]
             /\ callIn' = callIn
             /\ app' = app
             /\ <<cachedGraph, cachedTitle>>' = <<cachedGraph, cachedTitle>>]_vars

\* a relationship is expanded, the graph is loaded, nothing was thrown, and null
\* is recorded for the neighbour the lookup did not find
C19_Witness ==
  /\ GraphLoaded(cachedGraph)
  /\ callOut.consoleErrors = 0
  /\ callOut.expandedRelId # NoRel
  /\ \E k \in DOMAIN callOut.nodeDetails : callOut.nodeDetails[k] = Null

\* C20: a search request with no field ticked (and keywords given) is refused
\* in every state: the handler shows the error message and changes nothing
\* else, no run is started and no rendering follows; and the step that shows
\* the message leaves the display, the search state and the cache as they were
C20_EmptyFieldsRequestRefused ==
  /\ [](\A keywords \in {"tax", "alpha"}, expansionDegree \in {0, 1} :
          LET r == handleBottomUpSearch(app, SearchParams(keywords, expansionDegree, {}))
          IN /\ r.st = [app EXCEPT !.alert = "Please select at least one field to search in."]
             /\ r.fresh = {}
             /\ Settle(cachedGraph, app, r.st, r.fresh) = r.st)
  /\ [][(/\ app'.alert = "Please select at least one field to search in."
          /\ app.alert # app'.alert)
         => /\ [app' EXCEPT !.alert = app.alert, !.lastSettled = app.lastSettled] = app
            /\ UNCHANGED apiVars]_vars

\* a request without fields was refused while a search result of an earlier
\* request is on display, and the result is still there
C20_Witness ==
  /\ app.alert = "Please select at least one field to search in."
  /\ app.buildMode = "bottomUp"
  /\ app.bottomUpSearchParams # Null
  /\ app.bottomUpSearchParams.searchFields # {}
  /\ app.displayGraph.nodes # <<>>

\* C21: the seed matches of a request are the nodes whose kind is allowed and
\* of which, in conjunctive mode, every term, in disjunctive mode some term, is
\* a case-insensitive substring of some eligible field, a field per term; they
\* are the nodes of the result when nothing is expanded and nothing capped, and
\* their number is the result's matchedCount in every case
C21_SeedMatchByTermsAndFields ==
  (callOut # Null /\ callIn.fn = "buildNetwork") =>
    LET st == callIn.st
        nodes == callIn.builder.nodes
        lower(str) == toLowerCase(Chars(str))
        occurs(term, n) ==
          \/ ("text" \in st.searchFields /\ includes(lower(n.text), lower(term)))
          \/ ("display_label" \in st.searchFields
                /\ includes(lower(n.display_label), lower(term)))
        terms == {st.searchTerms[i] : i \in DOMAIN st.searchTerms}
        matches == {i \in DOMAIN nodes :
                      /\ nodes[i].node_type \in st.allowedNodeTypes
                      /\ IF callIn.searchLogic = "AND"
                         THEN \A term \in terms : occurs(term, nodes[i])
                         ELSE \E term \in terms : occurs(term, nodes[i])}
    IN /\ callOut.matchedCount = Cardinality(matches)
       /\ (st.expansionDepth = 0 /\ st.maxTotalNodes >= Len(nodes))
            => callOut.nodes = SelectSeq(nodes, LAMBDA n :
                                 \E i \in matches : nodes[i] = n)

\* a conjunctive request for "tax" and "alpha" over both fields was answered:
\* its only match is the node that has one term in its text and the other in
\* its display label
C21_Witness ==
  /\ callOut # Null
  /\ callIn.fn = "buildNetwork"
  /\ callIn.searchLogic = "AND"
  /\ callIn.st.searchTerms = <<"tax", "alpha">>
  /\ callIn.st.searchFields = {"text", "display_label"}
  /\ callIn.st.expansionDepth = 0
  /\ callOut.matchedCount = 1
  /\ Len(callOut.nodes) = 1
  /\ callOut.nodes[1].id = "a"
  /\ callOut.nodes[1].text = "tax"
  /\ callOut.nodes[1].display_label = "Alpha"

\* C22: the matchedCount of a result is the number of seed matches, the same
\* as that of the request with no expansion and the caps lifted, whose result
\* holds those matches and nothing else; a request without a seed match has a
\* result without nodes and links, matchedCount 0 and truncated false
C22_MatchedCountBeforeCaps ==
  (callOut # Null /\ callIn.fn = "buildNetwork") =>
    LET uncapped == BuildNetwork(callIn.builder,
                                 [callIn.st EXCEPT !.expansionDepth = 0,
                                                   !.maxNodesPerExpansion = MaxNodesPerExpansion,
                                                   !.maxTotalNodes = 1500],
                                 callIn.searchLogic, callIn.nodeRankingMode)
    IN /\ callOut.matchedCount = uncapped.matchedCount
       /\ callOut.matchedCount = Len(uncapped.nodes)
       /\ callOut.matchedCount = 0
            => /\ callOut.nodes = <<>>
               /\ callOut.links = <<>>
               /\ ~callOut.truncated

\* four nodes matched a request that may have one node: one node is in the
\* result, marked as truncated, and the count is four
C22_Witness ==
  /\ callOut # Null
  /\ callIn.fn = "buildNetwork"
  /\ callIn.st.maxTotalNodes = 1
  /\ callOut.matchedCount = 4
  /\ Len(callOut.nodes) = 1
  /\ callOut.truncated

\* C23: a result has at most maxTotalNodes nodes, each of them a seed match or
\* joined to a seed match of the result by at most expansionDepth allowed links
\* between result nodes, and its links are exactly the links of the scoped
\* graph, in their order, whose kind is allowed and whose two ends are result
\* nodes
C23_ResultNodesAndLinks ==
  (callOut # Null /\ callIn.fn = "buildNetwork") =>
    LET st == callIn.st
        ids == {callOut.nodes[i].id : i \in DOMAIN callOut.nodes}
        allowed == SelectSeq(callIn.builder.links, LAMBDA l :
                     l.edge_type \in st.allowedEdgeTypes)
        matches ==
          LET uncapped == BuildNetwork(callIn.builder,
                            [st EXCEPT !.expansionDepth = 0, !.maxTotalNodes = 1500],
                            callIn.searchLogic, callIn.nodeRankingMode).nodes
          IN {uncapped[i].id : i \in DOMAIN uncapped}
        RECURSIVE within(_)
        within(k) ==
          IF k = 0 THEN ids \cap matches
          ELSE LET near == within(k - 1)
               IN near \cup {x \in ids : \E i \in DOMAIN allowed :
                                \/ allowed[i].source = x /\ allowed[i].target \in near
                                \/ allowed[i].target = x /\ allowed[i].source \in near}
    IN /\ Len(callOut.nodes) <= st.maxTotalNodes
       /\ \A i \in DOMAIN callOut.nodes : \E k \in DOMAIN callIn.builder.nodes :
            callOut.nodes[i] = callIn.builder.nodes[k]
       /\ ids \subseteq within(st.expansionDepth)
       /\ callOut.links = SelectSeq(allowed, LAMBDA l : l.source \in ids /\ l.target \in ids)

\* the four matches of "tax" were expanded by one level over reference links
\* to all six nodes: the two hierarchy links between them are not in the result
C23_Witness ==
  /\ callOut # Null
  /\ callIn.fn = "buildNetwork"
  /\ callIn.st.allowedEdgeTypes = {"reference"}
  /\ callIn.st.expansionDepth = 1
  /\ callOut.matchedCount = 4
  /\ Len(callOut.nodes) = 6
  /\ Len(callOut.links) = 5
  /\ Len(callIn.builder.links) = 7

C25_RelationshipListing ==
  (callOut # Null /\ callIn.fn = "fetchRelationships") =>
    LET links == callIn.cachedGraph.links
        passes(l) == /\ l.time = callIn.timeScope
                     /\ callIn.categories # {} => l.edge_type \in callIn.categories
        passing == {i \in DOMAIN links : passes(links[i])}
        nth(k) == CHOOSE i \in passing : Cardinality({j \in passing : j <= i}) = k
        rels == callOut.relationships
    IN /\ Len(rels) <= callIn.limit
       /\ Len(rels) = Min(callIn.limit, Cardinality(passing))
       /\ callOut.totalBeforeLimit = Cardinality(passing)
       /\ \A k \in DOMAIN rels :
            /\ rels[k].id = k - 1
            /\ rels[k].actor_id = links[nth(k)].source
            /\ rels[k].target_id = links[nth(k)].target
            /\ rels[k].action = links[nth(k)].action

\* five of the seven links of the scope are references and the limit is 2: the
\* first two references are listed, the hierarchy links between them are not
C25_Witness ==
  /\ callOut # Null
  /\ callIn.fn = "fetchRelationships"
  /\ callIn.categories = {"reference"}
  /\ callIn.limit = 2
  /\ callOut.totalBeforeLimit = 5
  /\ Len(callOut.relationships) = 2
  /\ callOut.relationships[1].actor_id = "a" /\ callOut.relationships[1].target_id = "c"
  /\ callOut.relationships[2].actor_id = "e" /\ callOut.relationships[2].target_id = "a"

\* C26: searchActors lists at most 20 actors; each is a cached node of the
\* requested scope whose name or display label contains the query, the case
\* of the letters set aside, and is listed under its display label if it has
\* one and under its name otherwise; the shown names are in alphabetical
\* order; and as many are listed as there are such nodes, up to 20
C26_ActorSearch ==
  (callOut # Null /\ callIn.fn = "searchActors") =>
    LET nodes == callIn.cachedGraph.nodes
        actors == callOut.actors
        lower(s) == toLowerCase(Chars(s))
        found(n) == /\ n.time = callIn.timeScope
                    /\ \/ includes(lower(n.name), lower(callIn.query))
                       \/ includes(lower(n.display_label), lower(callIn.query))
        shownName(n) == IF n.display_label # NoVal THEN n.display_label ELSE n.name
        RECURSIVE alphabetical(_, _)
        alphabetical(u, v) ==
          \/ u = <<>>
          \/ /\ v # <<>>
             /\ \/ CharRank(Head(u)) < CharRank(Head(v))
                \/ /\ CharRank(Head(u)) = CharRank(Head(v))
                   /\ alphabetical(Tail(u), Tail(v))
    IN /\ Len(actors) <= 20
       /\ Len(actors) = Min(20, Cardinality({i \in DOMAIN nodes : found(nodes[i])}))
       /\ \A k \in DOMAIN actors :
            \E i \in DOMAIN nodes :
              /\ found(nodes[i])
              /\ actors[k].id = nodes[i].id
              /\ actors[k].time = callIn.timeScope
              /\ actors[k].name = shownName(nodes[i])
       /\ \A j, k \in DOMAIN actors :
            /\ j < k => alphabetical(lower(actors[j].name), lower(actors[k].name))
            /\ j # k => actors[j].id # actors[k].id

\* 22 nodes of the scope match, one of them by its label alone: 20 are listed,
\* the node named tax under its label A between the nodes named A that come
\* before and after it in the cache, the other nodes named tax at the end
C26_Witness ==
  /\ callOut # Null
  /\ callIn.fn = "searchActors"
  /\ callIn.query = "a"
  /\ callIn.timeScope = Pre
  /\ Len(callIn.cachedGraph.nodes) > 20
  /\ Len(callOut.actors) = 20
  /\ \E k \in DOMAIN callOut.actors :
       /\ callOut.actors[k].id = "4" /\ callOut.actors[k].name = "A"
       /\ callOut.actors[k - 1].id = "1"
       /\ callOut.actors[k + 1].id = "6"
  /\ callOut.actors[20].name = "tax"
  /\ \E k \in DOMAIN callOut.actors : callOut.actors[k].id = "5" /\ callOut.actors[k].name = "Alpha"

\* C27: the manifest lists one entry for each title number that a file named
\* title-<N>.json or title-<N>.meta.json of the listing carries; the entry of
\* a number is the split one when a meta file carries the number and the
\* single one otherwise; the entries are in ascending order of their numbers
C27_ManifestEntries ==
  (callOut # Null /\ callIn.fn = "buildManifest") =>
    LET number(f) == CASE f \in {"title-7.json", "title-07.meta.json"} -> 7
                       [] f \in {"title-26.json", "title-26.meta.json"} -> 26
                       [] f = "Title-42.meta.json" -> 42
                       [] OTHER -> 0
        isMeta(f) == f \in {"title-07.meta.json", "title-26.meta.json", "Title-42.meta.json"}
        listed == {callIn.files[i] : i \in DOMAIN callIn.files}
        numbers == {number(f) : f \in listed} \ {0}
        titles == callOut.titles
        numberOf(id) == CASE id \in {"7", "07"} -> 7 [] id = "26" -> 26 [] id = "42" -> 42
    IN /\ Len(titles) = Cardinality(numbers)
       /\ \A n \in numbers :
            \E k \in DOMAIN titles :
              /\ numberOf(titles[k].id) = n
              /\ titles[k].kind = IF \E f \in listed : number(f) = n /\ isMeta(f)
                                  THEN "split" ELSE "single"
       /\ \A j, k \in DOMAIN titles :
            j < k => numberOf(titles[j].id) <= numberOf(titles[k].id)

\* C29: whenever the App is in the course of a scope switch, with the
\* isSwitchingScope flag set, a state follows in which the flag is false again
C29_ScopeSwitchEnds ==
  app.isSwitchingScope ~> ~app.isSwitchingScope

\* C28: a step that changes the scope while a bottom-up search is active
\* leaves the stored keywords and search parameters as they were and the App
\* in bottom-up mode, and ends with the builder made from the projection of
\* the loaded graph on the new scope and with the display showing what the
\* stored parameters give on that builder
C28_RerunOnNewScope ==
  [][(/\ app.buildMode = "bottomUp"
      /\ NonBlank(app.bottomUpSearchKeywords)
      /\ app.bottomUpSearchParams # Null
      /\ app'.timeScope # app.timeScope)
     => /\ app'.bottomUpSearchParams = app.bottomUpSearchParams
        /\ app'.bottomUpSearchKeywords = app.bottomUpSearchKeywords
        /\ app'.buildMode = "bottomUp"
        /\ app'.fullGraph = app.fullGraph
        /\ app'.builder = scopedFullGraph(app'.fullGraph, app'.timeScope)
        /\ app'.displayGraph = RunOutput([params |-> app'.bottomUpSearchParams,
                                         builder |-> app'.builder,
                                         limit |-> app'.limit])]_vars

\* the scope has just been switched away from the scope of the selected node
\* under an active search: the display shows what the stored parameters give
\* on the new scope, which is not what they give on the scope left behind
C28_Witness ==
  /\ app.lastSettled.kind = "switchTimeScope"
  /\ app.buildMode = "bottomUp"
  /\ NonBlank(app.bottomUpSearchKeywords)
  /\ app.bottomUpSearchParams # Null
  /\ app.selectedNode # Null
  /\ app.selectedNode.scope # app.timeScope
  /\ app.displayGraph =
       RunOutput([params |-> app.bottomUpSearchParams,
                  builder |-> scopedFullGraph(app.fullGraph, app.timeScope),
                  limit |-> app.limit])
  /\ app.displayGraph #
       RunOutput([params |-> app.bottomUpSearchParams,
                  builder |-> scopedFullGraph(app.fullGraph, app.selectedNode.scope),
                  limit |-> app.limit])

\* C30: no step takes a loaded cache back to the unloaded state, whatever
\* load succeeds or fails in it, and a read accessor called on a loaded cache
\* is answered and not refused with the not-loaded error
C30_CacheStaysLoaded ==
  [][cachedGraph # Null
       => /\ cachedGraph' # Null
          /\ cachedTitle' # NoTitle
          /\ (reply' # reply /\ reply'.op \in Accessors
                => reply'.status = "ok" /\ reply'.data # Null)]_vars

\* a load issued after the load of the cached graph has failed, and a read
\* of the cache has been answered
C30_Witness ==
  /\ cachedGraph # Null
  /\ \E l \in loads : /\ l.pc = "rejected" /\ l.error = "FetchFailure"
                       /\ l.id > cachedGraph.oid
  /\ reply.op = "fetchRelationships"
  /\ reply.status = "ok"
  /\ reply.data.value.relationships # <<>>

\* C32: a search request without keywords or without a ticked field is
\* refused in every state, and the task of the refusal ends with the run
\* counter, the stored keywords and parameters, the build mode and the
\* displayed graph as they were; and a step that shows one of the messages of
\* refusal leaves these as they were
C32_RefusedRequestKeepsSearchState ==
  /\ [](LET searchState(s) == <<s.bottomUpRunId, s.bottomUpSearchParams,
                                 s.bottomUpSearchKeywords, s.buildMode,
                                 s.displayGraph, s.displayGraphInfo>>
            kept(r) ==
              /\ r.st.alert \in
                   {"Network builder is not ready. Please wait for the data to load.",
                    "Please enter some keywords to search for (e.g., \"tax\")",
                    "Please select at least one field to search in."}
              /\ searchState(Settle(cachedGraph, app, r.st, r.fresh)) = searchState(app)
        IN \A keywords \in {"tax", " ", ""}, searchFields \in SUBSET SearchFields :
             (~NonBlank(keywords) \/ searchFields = {})
               => kept(handleBottomUpSearch(app, SearchParams(keywords, 1, searchFields))))
  /\ [][(/\ app'.alert \in
              {"Network builder is not ready. Please wait for the data to load.",
               "Please enter some keywords to search for (e.g., \"tax\")",
               "Please select at least one field to search in."}
          /\ app'.alert # app.alert)
         => /\ app'.bottomUpRunId = app.bottomUpRunId
            /\ app'.bottomUpSearchParams = app.bottomUpSearchParams
            /\ app'.bottomUpSearchKeywords = app.bottomUpSearchKeywords
            /\ app'.buildMode = app.buildMode
            /\ app'.displayGraph = app.displayGraph
            /\ app'.displayGraphInfo = app.displayGraphInfo]_vars

\* a request with blank keywords was refused after a search and a change of
\* scope: the mode, the stored request and its result are still in place
C32_Witness ==
  /\ app.alert = "Please enter some keywords to search for (e.g., \"tax\")"
  /\ app.buildMode = "bottomUp"
  /\ app.bottomUpSearchParams # Null
  /\ app.bottomUpSearchKeywords = "tax"
  /\ app.bottomUpRunId > 0
  /\ app.displayGraph.nodes # <<>>

\* C33: the graph a search commits has at most limit links, all of them links
\* of the builder's result; its nodes are the nodes of the builder's result
\* that are an end of a committed link, in the builder's order, and no other;
\* it is marked truncated iff the builder's result is or the builder returned
\* more than limit links; its matchedCount is the builder's
C33_CommittedSearchGraph ==
  (callOut # Null /\ callIn.fn = "executeBottomUpSearch") =>
    LET filtered == callIn.filtered
        ends == {callOut.links[i].source : i \in DOMAIN callOut.links}
                  \cup {callOut.links[i].target : i \in DOMAIN callOut.links}
    IN /\ Len(callOut.links) <= callIn.limit
       /\ Len(callOut.links) = Min(callIn.limit, Len(filtered.links))
       /\ \A i \in DOMAIN callOut.links :
            Cardinality({k \in DOMAIN callOut.links : callOut.links[k] = callOut.links[i]})
              <= Cardinality({k \in DOMAIN filtered.links :
                               filtered.links[k] = callOut.links[i]})
       /\ callOut.nodes = SelectSeq(filtered.nodes, LAMBDA n : n.id \in ends)
       /\ callOut.truncated = (filtered.truncated \/ Len(filtered.links) > callIn.limit)
       /\ callOut.matchedCount = filtered.matchedCount

\* the builder returned four nodes and three links, untruncated, and the limit
\* is two: the committed graph is marked truncated and shows neither the node
\* without a link nor the node whose only link was cut
C33_Witness ==
  /\ callOut # Null
  /\ callIn.fn = "executeBottomUpSearch"
  /\ callIn.limit = 2
  /\ ~callIn.filtered.truncated
  /\ Len(callIn.filtered.links) = 3
  /\ Len(callIn.filtered.nodes) = 4
  /\ Len(callOut.links) = 2
  /\ Len(callOut.nodes) = 2
  /\ callOut.truncated
  /\ callOut.matchedCount = 4
  /\ \A i \in DOMAIN callOut.nodes : callOut.nodes[i].id # "e"

\* C34: in bottom-up mode with no search active the display shows the nodes
\* of the loaded graph that carry the active scope, the first maxHops of them
\* when maxHops is set, and the links of the scope between shown nodes, the
\* first limit of them; it is marked truncated iff nodes or links were cut,
\* and its matchedCount is the number of nodes shown
C34_NoSearchShowsCappedScope ==
  (app.buildMode = "bottomUp" /\ ~NonBlank(app.bottomUpSearchKeywords)) =>
    LET all == SelectSeq(app.fullGraph.nodes, LAMBDA n : n.time = app.timeScope)
        nodes == IF app.maxHops = NoHops THEN all ELSE Take(all, app.maxHops)
        shown == {nodes[i].id : i \in DOMAIN nodes}
        ids == {all[i].id : i \in DOMAIN all}
        projected == SelectSeq(app.fullGraph.links, LAMBDA l :
                       l.time = app.timeScope /\ l.source \in ids /\ l.target \in ids)
        between == SelectSeq(projected, LAMBDA l : l.source \in shown /\ l.target \in shown)
    IN /\ app.displayGraph.nodes = nodes
       /\ app.displayGraph.links = Take(between, app.limit)
       /\ app.displayGraph.truncated = (Len(nodes) < Len(all) \/ Len(between) > app.limit)
       /\ app.displayGraph.matchedCount = Len(app.displayGraph.nodes)

\* C35: a step that changes the scope takes as anchor the id of the open
\* document if one is open and the id of the selected node otherwise; if the
\* loaded graph has a node of that id in the new scope the selection is the
\* anchor in the new scope, whatever was selected before, and if it has none,
\* or there is no anchor, the selection is what it was, recorded scope included
C35_SwitchAnchorsSelection ==
  [][app'.timeScope # app.timeScope
     => LET anchor == IF app.openDocId # NoVal THEN app.openDocId
                      ELSE IF app.selectedNode # Null THEN app.selectedNode.id
                      ELSE NoVal
            found == /\ anchor # NoVal
                     /\ \E i \in DOMAIN app.fullGraph.nodes :
                          /\ app.fullGraph.nodes[i].id = anchor
                          /\ app.fullGraph.nodes[i].time = app'.timeScope
        IN /\ found => app'.selectedNode = [id |-> anchor, scope |-> app'.timeScope]
           /\ ~found => app'.selectedNode = app.selectedNode
           /\ app'.openDocId = app.openDocId]_vars

\* the scope was switched while the document of node a was open: node a is
\* selected in the new scope, in which node b, selectable before, is not
C35_Witness ==
  /\ app.lastSettled.kind = "switchTimeScope"
  /\ app.openDocId = "a"
  /\ app.timeScope = Post
  /\ app.selectedNode = [id |-> "a", scope |-> Post]
  /\ \E i \in DOMAIN app.fullGraph.nodes :
       app.fullGraph.nodes[i].id = "b" /\ app.fullGraph.nodes[i].time = Pre

\* C36: a click on a node selects it with the active scope as recorded scope,
\* unless it is the node selected in the active scope, which clears the
\* selection; a click with no id clears it; the task of the click ends with
\* that selection; and a step that leaves scope and graph alone and ends with
\* another selection than before ends with one recorded in the active scope
C36_ClickRecordsActiveScope ==
  /\ [](\A nodeId \in {"a", "b", NoVal} :
          LET r == handleNodeClick(app, nodeId)
              selected == IF nodeId = NoVal THEN Null
                          ELSE IF app.selectedNode = [id |-> nodeId, scope |-> app.timeScope]
                          THEN Null
                          ELSE [id |-> nodeId, scope |-> app.timeScope]
          IN /\ r.st.selectedNode = selected
             /\ Settle(cachedGraph, app, r.st, r.fresh).selectedNode = selected)
  /\ [][(/\ app'.selectedNode # app.selectedNode
          /\ app'.selectedNode # Null
          /\ app'.timeScope = app.timeScope
          /\ app'.fullGraph = app.fullGraph)
         => app'.selectedNode.scope = app.timeScope]_vars

\* node a is selected in the active scope post-OBBBA while the document of
\* node b, which that scope does not have, is open
C36_Witness ==
  /\ app.lastSettled = NoneSettled
  /\ app.timeScope = Post
  /\ app.openDocId = "b"
  /\ app.selectedNode = [id |-> "a", scope |-> Post]

\* C37: once the load of a title has resolved and the component has rendered
\* its resets, nothing of the previous title is left: the selection is null,
\* the relationships of the selected node are empty and their total is 0, the
\* stored search keywords are empty and the stored parameters are null; and
\* the step that applies the resets starts no search run
C37_ResolvedLoadClearsPreviousTitle ==
  /\ []((app.lastSettled.kind = "loadGraphData" /\ app.lastSettled.load.pc = "resolved")
        => /\ app.selectedNode = Null
           /\ app.actorRelationships = <<>>
           /\ app.actorTotalBeforeFilter = 0
           /\ app.bottomUpSearchKeywords = ""
           /\ app.bottomUpSearchParams = Null)
  /\ [][(app'.lastSettled.kind = "loadGraphData" /\ app'.lastSettled.load.pc = "resolved")
        => app'.bottomUpRunId = app.bottomUpRunId]_vars

\* the load of a second title has resolved in the bottom-up view after a
\* search had been run, and the nodes of the new title are displayed
C37_Witness ==
  /\ app.lastSettled.kind = "loadGraphData"
  /\ app.lastSettled.load.pc = "resolved"
  /\ app.lastSettled.load.title # InitialTitle
  /\ app.buildMode = "bottomUp"
  /\ app.bottomUpRunId > 0
  /\ app.bottomUpSearchKeywords = ""
  /\ app.displayGraph.nodes # <<>>

\* C38: fetchActorRelationships answers with no relationship and total 0 when
\* the cache has no node of the id in the requested scope; otherwise with one
\* relationship for each cached link of that scope whose source or target is
\* the id, in the order of the cached links, totalBeforeFilter being their
\* number, whatever categories are passed
C38_ActorRelationships ==
  (callOut # Null /\ callIn.fn = "fetchActorRelationships") =>
    LET nodes == callIn.cachedGraph.nodes
        links == callIn.cachedGraph.links
        id == callIn.actorId
        inScope == \E i \in DOMAIN nodes :
                     nodes[i].id = id /\ nodes[i].time = callIn.timeScope
        passing == {i \in DOMAIN links :
                      /\ links[i].time = callIn.timeScope
                      /\ links[i].source = id \/ links[i].target = id}
        nth(k) == CHOOSE i \in passing : Cardinality({j \in passing : j <= i}) = k
        rels == callOut.relationships
    IN IF ~inScope
       THEN rels = <<>> /\ callOut.totalBeforeFilter = 0
       ELSE /\ Len(rels) = Cardinality(passing)
            /\ callOut.totalBeforeFilter = Len(rels)
            /\ \A k \in DOMAIN rels :
                 /\ rels[k].id = k - 1
                 /\ rels[k].actor_id = links[nth(k)].source
                 /\ rels[k].target_id = links[nth(k)].target
                 /\ rels[k].action = links[nth(k)].action

\* node a of title 26 is asked for with the category definition: both of its
\* links of the scope are listed, the reference first
C38_Witness ==
  /\ callOut # Null
  /\ callIn.fn = "fetchActorRelationships"
  /\ callIn.cachedGraph = BuildGraph(File26, 1)
  /\ callIn.actorId = "a"
  /\ callIn.timeScope = Pre
  /\ callIn.categories = {"definition"}
  /\ callOut.totalBeforeFilter = 2
  /\ Len(callOut.relationships) = 2
  /\ callOut.relationships[1].action = "cites"
  /\ callOut.relationships[2].actor_id = "b"

\* C39: fetchRelationships selects links by their own scope tag, not by their
\* endpoints: a link of the requested scope is listed in its turn even when
\* the scope has no node of its source or target id, the raw id then standing
\* for the actor or target name and the type of that endpoint being undefined,
\* while the projected view of the same scope does not hold that link
C39_ListingKeepsDanglingLinks ==
  (callOut # Null /\ callIn.fn = "fetchRelationships") =>
    LET nodes == callIn.cachedGraph.nodes
        links == callIn.cachedGraph.links
        ids == {nodes[i].id : i \in {j \in DOMAIN nodes : nodes[j].time = callIn.timeScope}}
        passes(l) == /\ l.time = callIn.timeScope
                     /\ callIn.categories # {} => l.edge_type \in callIn.categories
        passing == {i \in DOMAIN links : passes(links[i])}
        nth(k) == CHOOSE i \in passing : Cardinality({j \in passing : j <= i}) = k
        projected == scopedFullGraph(callIn.cachedGraph, callIn.timeScope).links
        rels == callOut.relationships
    IN /\ Len(rels) = Min(callIn.limit, Cardinality(passing))
       /\ \A k \in DOMAIN rels :
            /\ rels[k].actor_id = links[nth(k)].source
            /\ rels[k].target_id = links[nth(k)].target
            /\ links[nth(k)].source \notin ids
                 => rels[k].actor = links[nth(k)].source /\ rels[k].actor_type = NoVal
            /\ links[nth(k)].target \notin ids
                 => rels[k].target = links[nth(k)].target /\ rels[k].target_type = NoVal
            /\ (links[nth(k)].source \notin ids \/ links[nth(k)].target \notin ids)
                 => \A j \in DOMAIN projected : projected[j] # links[nth(k)]

\* the later scope of title 26 has node a alone and the link from a to b: the
\* link is listed with target b of no type, and the projected view has no link
C39_Witness ==
  /\ callOut # Null
  /\ callIn.fn = "fetchRelationships"
  /\ callIn.cachedGraph = BuildGraph(File26, 1)
  /\ callIn.timeScope = Post
  /\ callIn.categories = {}
  /\ Len(callOut.relationships) = 1
  /\ callOut.relationships[1].actor = "A"
  /\ callOut.relationships[1].target = "b"
  /\ callOut.relationships[1].target_type = NoVal
  /\ scopedFullGraph(callIn.cachedGraph, Post).links = <<>>

\* C2: when the load of a title resolves after a later-issued load of another
\* title has resolved, the cache and the displayed full graph are still those
\* of the later load
C2_OlderLoadNeverOverwrites ==
  [][(/\ app'.lastSettled.kind = "loadGraphData"
      /\ app'.lastSettled.load.pc = "resolved"
      /\ app.newestLoad.id > app'.lastSettled.load.id
      /\ app.newestLoad.title # app'.lastSettled.load.title
      /\ app.newestLoad.ok)
     => /\ cachedGraph' # Null
        /\ cachedGraph'.oid = app.newestLoad.oid
        /\ cachedTitle' = app.newestLoad.title
        /\ app'.fullGraph.oid = app.newestLoad.oid]_vars

\* C3: there is one generation counter, and it has been incremented once for
\* every search run and once for every title reload the App has invoked
C3_CounterCountsSearchesAndReloads == app.bottomUpRunId = app.invocations

\* lines 115-118: what the side panel is given for the selected node
rightSidebar(s) ==
  LET isSelectedInScope == s.selectedNode # Null /\ s.selectedNode.scope = s.timeScope
  IN [relationships |-> IF isSelectedInScope THEN s.actorRelationships ELSE <<>>,
      total |-> IF isSelectedInScope THEN s.actorTotalBeforeFilter ELSE 0]

TitlesShown(s, cg) ==
  LET ofNodes(nodes) == {nodes[i].source_title : i \in DOMAIN nodes}
      ofId(id) == IF id \in {"a", "b"} THEN 26 ELSE 42
      ofRels(rels) == UNION {{ofId(rels[i].actor_id), ofId(rels[i].target_id)} :
                               i \in DOMAIN rels}
      isSelectedInScope == s.selectedNode # Null /\ s.selectedNode.scope = s.timeScope
  IN ofNodes(s.fullGraph.nodes) \cup ofRels(s.relationships)
     \cup (IF s.buildMode = "bottomUp" THEN ofNodes(s.displayGraph.nodes) ELSE {})
     \cup (IF isSelectedInScope THEN ofRels(s.actorRelationships) ELSE {})
     \cup (IF cg = Null THEN {} ELSE ofNodes(cg.nodes))

\* C7: once a title load has failed, and in every state before, the data on
\* display (full graph, top-down relationships, bottom-up display graph,
\* relationships of the selected node) and the data the cache accessors serve
\* belong to one title, or there is none
C7_OneTitleShown == Cardinality(TitlesShown(app, cachedGraph)) <= 1

\* the load of another title has just failed while the data of the previous
\* title is listed and cached
C7_Witness ==
  /\ app.lastSettled.kind = "loadGraphData"
  /\ app.lastSettled.load.pc = "rejected"
  /\ app.lastSettled.load.title # cachedTitle
  /\ cachedGraph # Null
  /\ app.relationships # <<>>
  /\ app.fullGraph.nodes = <<>>
  /\ TitlesShown(app, cachedGraph) = {cachedTitle}

====
